---- MODULE Spec2Model ----
(***************************************************************************)
(* Access control of the LightRAG API (lightrag/api/access_control.py):    *)
(* share-entry parsing, metadata normalization and the accessible-document *)
(* resolver get_user_accessible_files.                                      *)
(*                                                                         *)
(* A Python str is a sequence of one-character strings, so that split,     *)
(* strip, lower and the `in` substring test are computed, not assumed.     *)
(* A Python value of unknown type (Any) is a record tagged by its type:    *)
(*   [t |-> "none"]                   None                                  *)
(*   [t |-> "str", s |-> text]        a str                                 *)
(*   [t |-> "int", n |-> number]      an int                                *)
(*   [t |-> "bool", b |-> truth]      a bool                                *)
(*   [t |-> "list", items |-> seq]    a list of values                      *)
(*   [t |-> "dict", pairs |-> seq]    a dict: its <<key, value>> pairs in   *)
(*                                    insertion order, the keys being str   *)
(*   [t |-> "entry", e |-> entry]     a ShareEntry instance                 *)
(* A call's outcome is [raised |-> exception name or "", val |-> result].  *)
(***************************************************************************)
EXTENDS Integers, Sequences, FiniteSets, TLC

VARIABLES
    op,       \* the function of the module under call ("" before any call)
    arg,      \* its argument(s)
    ret,      \* its outcome, once it has returned or raised
    store,    \* the document status storage: doc_id -> DocProcessingStatus
    pc,       \* get_user_accessible_files: "idle", "listing", "done", "failed"
    req,      \* its arguments
    result    \* its return value: the accessible doc_id -> status mapping

vars == <<op, arg, ret, store, pc, req, result>>

(***************************************************************************)
(* str                                                                     *)
(***************************************************************************)
UpperCase == <<"A","B","C","D","E","F","G","H","I","J","K","L","M",
               "N","O","P","Q","R","S","T","U","V","W","X","Y","Z">>

LowerCase == <<"a","b","c","d","e","f","g","h","i","j","k","l","m",
               "n","o","p","q","r","s","t","u","v","w","x","y","z">>

LowerChar(c) ==
    IF \E i \in DOMAIN UpperCase : UpperCase[i] = c
    THEN LowerCase[CHOOSE i \in DOMAIN UpperCase : UpperCase[i] = c]
    ELSE c

\* str.lower()
StrLower(s) == [i \in DOMAIN s |-> LowerChar(s[i])]

IsSpace(c) == c \in {" ", "\t", "\n"}

\* str.strip()
StrStrip(s) ==
    LET keep == {i \in DOMAIN s : ~IsSpace(s[i])}
        lo == CHOOSE i \in keep : \A j \in keep : i <= j
        hi == CHOOSE i \in keep : \A j \in keep : j <= i
    IN  IF keep = {} THEN <<>> ELSE SubSeq(s, lo, hi)

\* sub in s
StrContains(sub, s) ==
    \E i \in 0..(Len(s) - Len(sub)) : SubSeq(s, i + 1, i + Len(sub)) = sub

\* s.split(sep), sep one character
RECURSIVE StrSplit(_, _)
StrSplit(s, sep) ==
    LET at == {i \in DOMAIN s : s[i] = sep}
        first == CHOOSE i \in at : \A j \in at : i <= j
    IN  IF at = {} THEN <<s>>
        ELSE <<SubSeq(s, 1, first - 1)>> \o StrSplit(SubSeq(s, first + 1, Len(s)), sep)

\* s.split(sep), sep of any length
RECURSIVE StrSplitOn(_, _)
StrSplitOn(s, sep) ==
    LET at == {i \in 1..(Len(s) - Len(sep) + 1) : SubSeq(s, i, i + Len(sep) - 1) = sep}
        first == CHOOSE i \in at : \A j \in at : i <= j
    IN  IF at = {} THEN <<s>>
        ELSE <<SubSeq(s, 1, first - 1)>>
             \o StrSplitOn(SubSeq(s, first + Len(sep), Len(s)), sep)

\* s.split(sep, 1)
StrSplitOnce(s, sep) ==
    LET at == {i \in DOMAIN s : s[i] = sep}
        first == CHOOSE i \in at : \A j \in at : i <= j
    IN  IF at = {} THEN <<s>>
        ELSE <<SubSeq(s, 1, first - 1), SubSeq(s, first + 1, Len(s))>>

\* sep.join(parts)
RECURSIVE StrJoin(_, _)
StrJoin(parts, sep) ==
    IF parts = <<>> THEN <<>>
    ELSE IF Len(parts) = 1 THEN parts[1]
    ELSE parts[1] \o sep \o StrJoin(Tail(parts), sep)

\* [part.strip() for part in parts if part.strip()]
StripNonBlank(parts) ==
    LET stripped == [i \in DOMAIN parts |-> StrStrip(parts[i])]
        nonBlank(part) == part # <<>>
    IN  SelectSeq(stripped, nonBlank)

(***************************************************************************)
(* Outcomes of a call                                                      *)
(***************************************************************************)
Return(v) == [raised |-> "", val |-> v]

Raise(e) == [raised |-> e, val |-> <<>>]

(***************************************************************************)
(* Permission, ShareEntry                                                  *)
(***************************************************************************)
s_view == <<"v","i","e","w">>
s_edit == <<"e","d","i","t">>
s_user == <<"u","s","e","r">>
s_role == <<"r","o","l","e">>
s_all  == <<"a","l","l">>
s_star == <<"*">>

\* Permission.VIEW = "view", Permission.EDIT = "edit"
VIEW == "VIEW"
EDIT == "EDIT"

PermissionValue(p) == IF p = EDIT THEN s_edit ELSE s_view

\* Permission.from_value: cls(value.lower()), ValueError for any other text
PermissionFromValue(value) ==
    LET v == StrLower(value)
    IN  IF v = s_view THEN Return(VIEW)
        ELSE IF v = s_edit THEN Return(EDIT)
        ELSE Raise("ValueError")

ShareEntry(target_type, permission, identifier) ==
    [target_type |-> target_type, permission |-> permission, identifier |-> identifier]

\* parse_share_entry
parse_share_entry(entry) ==
    LET parts == StripNonBlank(StrSplit(entry, ":"))
    IN  IF Len(parts) # 3 THEN Raise("ValueError")
        ELSE LET target_type == StrLower(parts[1])
                 permission == PermissionFromValue(parts[2])
                 identifier == parts[3]
             IN  IF target_type \notin {s_user, s_role} THEN Raise("ValueError")
                 ELSE IF permission.raised # "" THEN Raise(permission.raised)
                 ELSE IF identifier = <<>> THEN Raise("ValueError")
                 ELSE Return(ShareEntry(target_type, permission.val, identifier))

(***************************************************************************)
(* Python values of unknown type                                           *)
(***************************************************************************)
None == [t |-> "none"]

StrV(s) == [t |-> "str", s |-> s]

IntV(n) == [t |-> "int", n |-> n]

BoolV(b) == [t |-> "bool", b |-> b]

ListV(items) == [t |-> "list", items |-> items]

DictV(pairs) == [t |-> "dict", pairs |-> pairs]

EntryV(e) == [t |-> "entry", e |-> e]

\* bool(x), the truth value `if x:` and `x or y` test
Truthy(x) ==
    CASE x.t = "none" -> FALSE
      [] x.t = "str" -> x.s # <<>>
      [] x.t = "int" -> x.n # 0
      [] x.t = "bool" -> x.b
      [] x.t = "list" -> x.items # <<>>
      [] x.t = "dict" -> x.pairs # <<>>
      [] OTHER -> TRUE

\* d.get(key, default) of a dict d
DictGet(d, key, default) ==
    IF \E i \in DOMAIN d.pairs : d.pairs[i][1] = key
    THEN d.pairs[CHOOSE i \in DOMAIN d.pairs : d.pairs[i][1] = key][2]
    ELSE default

\* d[key] = value: a present key keeps its place, a new one goes last
DictSet(pairs, key, value) ==
    IF \E i \in DOMAIN pairs : pairs[i][1] = key
    THEN [i \in DOMAIN pairs |-> IF pairs[i][1] = key THEN <<key, value>> ELSE pairs[i]]
    ELSE Append(pairs, <<key, value>>)

Digits == <<"0","1","2","3","4","5","6","7","8","9">>

RECURSIVE NatStr(_)
NatStr(n) ==
    IF n < 10 THEN <<Digits[n + 1]>>
    ELSE NatStr(n \div 10) \o <<Digits[(n % 10) + 1]>>

IntStr(n) == IF n < 0 THEN <<"-">> \o NatStr(0 - n) ELSE NatStr(n)

\* repr(x) and str(x). repr of a str is the text in single quotes: exact for
\* texts of printable characters without quote or backslash, the only ones
\* the inputs below hold.
RECURSIVE PyRepr(_)
RECURSIVE PyReprItems(_, _)
PyReprItems(items, isDict) ==
    LET one(x) == IF isDict THEN PyRepr(StrV(x[1])) \o <<":"," ">> \o PyRepr(x[2])
                  ELSE PyRepr(x)
    IN  IF items = <<>> THEN <<>>
        ELSE IF Len(items) = 1 THEN one(items[1])
        ELSE one(items[1]) \o <<","," ">> \o PyReprItems(Tail(items), isDict)

PyRepr(x) ==
    CASE x.t = "none" -> <<"N","o","n","e">>
      [] x.t = "str" -> <<"'">> \o x.s \o <<"'">>
      [] x.t = "int" -> IntStr(x.n)
      [] x.t = "bool" -> IF x.b THEN <<"T","r","u","e">> ELSE <<"F","a","l","s","e">>
      [] x.t = "list" -> <<"[">> \o PyReprItems(x.items, FALSE) \o <<"]">>
      [] x.t = "dict" -> <<"{">> \o PyReprItems(x.pairs, TRUE) \o <<"}">>
      [] OTHER ->
            <<"S","h","a","r","e","E","n","t","r","y","(",
              "t","a","r","g","e","t","_","t","y","p","e","=">>
            \o PyRepr(StrV(x.e.target_type))
            \o <<","," ","p","e","r","m","i","s","s","i","o","n","=",
                 "<","P","e","r","m","i","s","s","i","o","n",".">>
            \o (IF x.e.permission = EDIT THEN <<"E","D","I","T">> ELSE <<"V","I","E","W">>)
            \o <<":"," ">> \o PyRepr(StrV(PermissionValue(x.e.permission)))
            \o <<">",","," ","i","d","e","n","t","i","f","i","e","r","=">>
            \o PyRepr(StrV(x.e.identifier)) \o <<")">>

PyStr(x) == IF x.t = "str" THEN x.s ELSE PyRepr(x)

(***************************************************************************)
(* json.loads, for the JSON grammar without fractions, exponents, string   *)
(* escapes and the NaN/Infinity extensions (no input below uses them).     *)
(* A parse step yields [ok, val, rest]: the value read and the text left.  *)
(***************************************************************************)
JsonFail == [ok |-> FALSE, val |-> None, rest |-> <<>>]

JsonOk(v, rest) == [ok |-> TRUE, val |-> v, rest |-> rest]

JsonSkipWs(s) ==
    LET keep == {i \in DOMAIN s : s[i] \notin {" ", "\t", "\n", "\r"}}
        lo == CHOOSE i \in keep : \A j \in keep : i <= j
    IN  IF keep = {} THEN <<>> ELSE SubSeq(s, lo, Len(s))

HasPrefix(s, p) == Len(s) >= Len(p) /\ SubSeq(s, 1, Len(p)) = p

IsDigit(c) == \E i \in DOMAIN Digits : Digits[i] = c

DigitVal(c) == (CHOOSE i \in DOMAIN Digits : Digits[i] = c) - 1

RECURSIVE DigitsVal(_)
DigitsVal(ds) ==
    IF ds = <<>> THEN 0
    ELSE 10 * DigitsVal(SubSeq(ds, 1, Len(ds) - 1)) + DigitVal(ds[Len(ds)])

\* a string: from the opening quote to the next quote, no control character
JsonString(s) ==
    LET quotes == {i \in 2..Len(s) : s[i] = "\""}
        close == CHOOSE i \in quotes : \A j \in quotes : i <= j
        body == SubSeq(s, 2, close - 1)
    IN  IF quotes = {} THEN JsonFail
        ELSE IF \E i \in DOMAIN body : body[i] \in {"\t", "\n", "\r", "\\"} THEN JsonFail
        ELSE JsonOk(StrV(body), SubSeq(s, close + 1, Len(s)))

\* an integer: -?(0|[1-9][0-9]*)
JsonNumber(s) ==
    LET neg == s[1] = "-"
        t == IF neg THEN Tail(s) ELSE s
        stop == {i \in DOMAIN t : ~IsDigit(t[i])}
        n == IF stop = {} THEN Len(t)
             ELSE (CHOOSE i \in stop : \A j \in stop : i <= j) - 1
        m == IF n > 0 /\ t[1] = "0" THEN 1 ELSE n
        ds == SubSeq(t, 1, m)
    IN  IF m = 0 THEN JsonFail
        ELSE JsonOk(IntV(IF neg THEN 0 - DigitsVal(ds) ELSE DigitsVal(ds)),
                    SubSeq(t, m + 1, Len(t)))

RECURSIVE JsonValue(_)
RECURSIVE JsonElements(_, _)
RECURSIVE JsonMembers(_, _)
JsonElements(s, acc) ==
    LET item == JsonValue(s)
        r == JsonSkipWs(item.rest)
    IN  IF ~item.ok \/ r = <<>> THEN JsonFail
        ELSE IF r[1] = "," THEN JsonElements(Tail(r), Append(acc, item.val))
        ELSE IF r[1] = "]" THEN JsonOk(ListV(Append(acc, item.val)), Tail(r))
        ELSE JsonFail

JsonMembers(s0, acc) ==
    LET s == JsonSkipWs(s0)
        key == IF s # <<>> /\ s[1] = "\"" THEN JsonString(s) ELSE JsonFail
        c == JsonSkipWs(key.rest)
        item == IF key.ok /\ c # <<>> /\ c[1] = ":" THEN JsonValue(Tail(c)) ELSE JsonFail
        r == JsonSkipWs(item.rest)
    IN  IF ~item.ok \/ r = <<>> THEN JsonFail
        ELSE IF r[1] = "," THEN JsonMembers(Tail(r), DictSet(acc, key.val.s, item.val))
        ELSE IF r[1] = "}" THEN JsonOk(DictV(DictSet(acc, key.val.s, item.val)), Tail(r))
        ELSE JsonFail

JsonValue(s0) ==
    LET s == JsonSkipWs(s0)
        r == JsonSkipWs(Tail(s))
    IN  IF s = <<>> THEN JsonFail
        ELSE IF s[1] = "\"" THEN JsonString(s)
        ELSE IF s[1] = "[" THEN
            (IF r # <<>> /\ r[1] = "]" THEN JsonOk(ListV(<<>>), Tail(r))
             ELSE JsonElements(r, <<>>))
        ELSE IF s[1] = "{" THEN
            (IF r # <<>> /\ r[1] = "}" THEN JsonOk(DictV(<<>>), Tail(r))
             ELSE JsonMembers(r, <<>>))
        ELSE IF HasPrefix(s, <<"n","u","l","l">>) THEN JsonOk(None, SubSeq(s, 5, Len(s)))
        ELSE IF HasPrefix(s, <<"t","r","u","e">>) THEN JsonOk(BoolV(TRUE), SubSeq(s, 5, Len(s)))
        ELSE IF HasPrefix(s, <<"f","a","l","s","e">>) THEN JsonOk(BoolV(FALSE), SubSeq(s, 6, Len(s)))
        ELSE IF s[1] = "-" \/ IsDigit(s[1]) THEN JsonNumber(s)
        ELSE JsonFail

\* json.loads(text): one value, nothing but whitespace after it
JsonLoads(text) ==
    LET got == JsonValue(text)
    IN  IF got.ok /\ JsonSkipWs(got.rest) = <<>> THEN Return(got.val)
        ELSE Raise("JSONDecodeError")

(***************************************************************************)
(* Metadata normalization helpers                                          *)
(***************************************************************************)
k_name == <<"n","a","m","e">>
k_value == <<"v","a","l","u","e">>
k_target_type == <<"t","a","r","g","e","t","_","t","y","p","e">>
k_permission == <<"p","e","r","m","i","s","s","i","o","n">>
k_identifier == <<"i","d","e","n","t","i","f","i","e","r">>

Tag(name, value) == [name |-> name, value |-> value]

\* the elements of seq at the indices of keep, in the order of seq
PickInOrder(seq, keep) ==
    LET rank(i) == Cardinality({j \in keep : j <= i})
    IN  [k \in 1..Cardinality(keep) |-> seq[CHOOSE i \in keep : rank(i) = k]]

\* as DedupByKey, each element at its last occurrence only
DedupByKey_KeepLast(seq, seen, byShare) ==
    PickInOrder(seq, {i \in DOMAIN seq : \A j \in DOMAIN seq : j > i => seq[j] # seq[i]})

\* [x for x in seq if x is kept], each element at its first occurrence only
RECURSIVE DedupByKey(_, _, _)
DedupByKey(seq, seen, byShare) ==
    LET item == Head(seq)
        key == IF byShare
               THEN <<item.target_type, PermissionValue(item.permission), item.identifier>>
               ELSE <<item.name, item.value>>
    IN  IF seq = <<>> THEN <<>>
        ELSE IF key \in seen THEN DedupByKey(Tail(seq), seen, byShare)
        ELSE <<item>> \o DedupByKey(Tail(seq), seen \cup {key}, byShare)

\* the text a str payload stands for: its JSON value, else its comma-separated
\* non-blank items; a JSON value that is no list is taken as a list of one
\* parsed, from the outcome of json.loads and the comma-separated items
PayloadOf(loaded, items) ==
    LET pieces == [i \in DOMAIN items |-> StrV(items[i])]
        parsed == IF loaded.raised = "" THEN loaded.val ELSE ListV(pieces)
    IN  IF parsed.t = "list" THEN parsed.items ELSE <<parsed>>

\* raw_iterable of a str payload
StrPayloadItems(raw_str) ==
    PayloadOf(JsonLoads(raw_str), StripNonBlank(StrSplit(raw_str, ",")))

\* normalize_tag_items._coerce_entry: <<>> stands for None, else <<tag>>
\* {"name": name, "value": value} if name else None
TagOf(name, value) == IF name = <<>> THEN <<>> ELSE <<Tag(name, value)>>

\* as TagOfParts, with the value as written
TagOfParts_KeepSpace(parts) ==
    TagOf(StrStrip(parts[1]), IF Len(parts) = 2 THEN parts[2] ELSE <<>>)

\* the tag of a text split once at its first colon
TagOfParts(parts) ==
    TagOf(StrStrip(parts[1]), IF Len(parts) = 2 THEN StrStrip(parts[2]) ELSE <<>>)

\* _coerce_entry
coerce_entry(entry) ==
    IF entry.t = "dict" THEN
        TagOf(StrStrip(PyStr(DictGet(entry, k_name, StrV(<<>>)))),
              StrStrip(PyStr(DictGet(entry, k_value, StrV(<<>>)))))
    ELSE IF entry.t = "str" THEN TagOfParts(StrSplitOnce(entry.s, ":"))
    ELSE <<>>

RECURSIVE CoerceAll(_)
CoerceAll(items) ==
    IF items = <<>> THEN <<>>
    ELSE coerce_entry(Head(items)) \o CoerceAll(Tail(items))

\* raw_iterable of normalize_tag_items, for a str (stripped), dict or list
TagIterable(raw_tags) ==
    CASE raw_tags.t = "str" -> StrPayloadItems(raw_tags.s)
      [] raw_tags.t = "dict" ->
            [i \in DOMAIN raw_tags.pairs |->
                DictV(<< <<k_name, StrV(raw_tags.pairs[i][1])>>,
                         <<k_value, raw_tags.pairs[i][2]>> >>)]
      [] raw_tags.t = "list" -> raw_tags.items

\* normalize_tag_items on a payload that is not empty, a str being stripped
NormalizedTags(raw_tags) ==
    IF raw_tags.t = "str" /\ raw_tags.s = <<>> THEN Return(<<>>)
    ELSE IF raw_tags.t \in {"str", "dict", "list"}
    THEN Return(DedupByKey(CoerceAll(TagIterable(raw_tags)), {}, FALSE))
    ELSE Raise("TypeError")

\* normalize_tag_items
normalize_tag_items(raw_tags) ==
    IF raw_tags.t = "none" THEN Return(<<>>)
    ELSE IF raw_tags.t = "str" THEN NormalizedTags(StrV(StrStrip(raw_tags.s)))
    ELSE NormalizedTags(raw_tags)

\* the loop body of normalize_share_items: <<>> when the item is dropped
\* the entry of a structured record, dropped on a bad permission or empty identifier
ShareOfRecord(target_type, permission, identifier) ==
    IF permission.raised # "" THEN <<>>
    ELSE IF identifier = <<>> THEN <<>>
    ELSE <<ShareEntry(target_type, permission.val, identifier)>>

\* the entry of a text, dropped when the strict parser raises
ShareOfText(entry) ==
    IF entry.raised # "" THEN <<>>
    ELSE IF entry.val.identifier = <<>> THEN <<>>
    ELSE <<entry.val>>

\* one item of raw_iterable
share_item(item) ==
    IF item.t = "entry" THEN <<item.e>>
    ELSE IF item.t = "dict" THEN
        ShareOfRecord(StrLower(StrStrip(PyStr(DictGet(item, k_target_type, StrV(<<>>))))),
                      PermissionFromValue(PyStr(DictGet(item, k_permission, StrV(s_view)))),
                      StrStrip(PyStr(DictGet(item, k_identifier, StrV(<<>>)))))
    ELSE ShareOfText(parse_share_entry(PyStr(item)))

RECURSIVE ShareItems(_)
ShareItems(items) ==
    IF items = <<>> THEN <<>>
    ELSE share_item(Head(items)) \o ShareItems(Tail(items))

\* raw_iterable of normalize_share_items, for a str (stripped), dict or list
ShareIterable(raw_share) ==
    CASE raw_share.t = "str" -> StrPayloadItems(raw_share.s)
      [] raw_share.t = "dict" -> <<raw_share>>
      [] raw_share.t = "list" -> raw_share.items

\* normalize_share_items on a payload that is not empty, a str being stripped
NormalizedShares(raw_share) ==
    IF raw_share.t = "str" /\ raw_share.s = <<>> THEN Return(<<>>)
    ELSE IF raw_share.t = "entry" THEN Return(<<raw_share.e>>)
    ELSE IF raw_share.t \in {"str", "dict", "list"}
    THEN Return(DedupByKey(ShareItems(ShareIterable(raw_share)), {}, TRUE))
    ELSE Raise("TypeError")

\* normalize_share_items
normalize_share_items(raw_share) ==
    IF raw_share.t = "none" THEN Return(<<>>)
    ELSE IF raw_share.t = "str" THEN NormalizedShares(StrV(StrStrip(raw_share.s)))
    ELSE NormalizedShares(raw_share)

(***************************************************************************)
(* Document metadata                                                       *)
(***************************************************************************)
k_owner == <<"o","w","n","e","r">>
k_user_id == <<"u","s","e","r","_","i","d">>
k_uploaded_by == <<"u","p","l","o","a","d","e","d","_","b","y">>
k_share_parsed == <<"s","h","a","r","e","_","p","a","r","s","e","d">>
k_share == <<"s","h","a","r","e">>
k_access_control == <<"a","c","c","e","s","s","_","c","o","n","t","r","o","l">>
k_viewers == <<"v","i","e","w","e","r","s">>
k_editors == <<"e","d","i","t","o","r","s">>
k_allowed_roles == <<"a","l","l","o","w","e","d","_","r","o","l","e","s">>
k_is_public == <<"i","s","_","p","u","b","l","i","c">>
k_project_id == <<"p","r","o","j","e","c","t","_","i","d">>
k_tags == <<"t","a","g","s">>

\* a == b, for values of the types the metadata holds
PyEq(a, b) == a.t = b.t /\ a = b

\* a or b
PyOr(a, b) == IF Truthy(a) THEN a ELSE b

\* for item in x: the items of a list, the characters of a str, the keys of
\* a dict; any other value is not iterable
Iterate(x) ==
    CASE x.t = "list" -> Return(x.items)
      [] x.t = "str" -> Return([i \in DOMAIN x.s |-> StrV(<<x.s[i]>>)])
      [] x.t = "dict" -> Return([i \in DOMAIN x.pairs |-> StrV(x.pairs[i][1])])
      [] OTHER -> Raise("TypeError")

\* metadata_owner: the owner as a str, or None
metadata_owner(metadata) ==
    LET owner == PyOr(DictGet(metadata, k_owner, None), DictGet(metadata, k_user_id, None))
    IN  IF Truthy(owner) THEN StrV(PyStr(owner)) ELSE None

\* metadata_tags
metadata_tags(metadata) == normalize_tag_items(DictGet(metadata, k_tags, ListV(<<>>)))

\* the entries of one of the keys share_parsed, share
ShareOfKey(metadata, key) ==
    LET raw_value == DictGet(metadata, key, None)
    IN  IF Truthy(raw_value) THEN normalize_share_items(raw_value) ELSE Return(<<>>)

\* the legacy access_control mapping: owner, viewers, editors
LegacyOf(owner, viewers, editors) ==
    IF viewers.raised # "" THEN viewers
    ELSE IF editors.raised # "" THEN editors
    ELSE Return(
        (IF Truthy(owner) THEN <<ShareEntry(s_user, EDIT, PyStr(owner))>> ELSE <<>>)
        \o [i \in DOMAIN viewers.val |-> ShareEntry(s_user, VIEW, PyStr(viewers.val[i]))]
        \o [i \in DOMAIN editors.val |-> ShareEntry(s_user, EDIT, PyStr(editors.val[i]))])

\* the entries of metadata access_control, when it is a dict
LegacyEntries(access_control) ==
    IF access_control.t # "dict" THEN Return(<<>>)
    ELSE LegacyOf(DictGet(access_control, k_owner, None),
                  Iterate(PyOr(DictGet(access_control, k_viewers, ListV(<<>>)), ListV(<<>>))),
                  Iterate(PyOr(DictGet(access_control, k_editors, ListV(<<>>)), ListV(<<>>))))

\* as MergedEntries, with the legacy entries first
MergedEntries_LegacyFirst(parsed, share, legacy) ==
    IF parsed.raised # "" THEN parsed
    ELSE IF share.raised # "" THEN share
    ELSE IF legacy.raised # "" THEN legacy
    ELSE Return(DedupByKey(legacy.val \o parsed.val \o share.val, {}, TRUE))

\* entries of the three sources in order, deduplicated
MergedEntries(parsed, share, legacy) ==
    IF parsed.raised # "" THEN parsed
    ELSE IF share.raised # "" THEN share
    ELSE IF legacy.raised # "" THEN legacy
    ELSE Return(DedupByKey(parsed.val \o share.val \o legacy.val, {}, TRUE))

\* metadata_share_entries
metadata_share_entries(metadata) ==
    MergedEntries(ShareOfKey(metadata, k_share_parsed), ShareOfKey(metadata, k_share),
                  LegacyEntries(DictGet(metadata, k_access_control, None)))

\* AccessFilters
AccessFilters(project_id, owner, tags, filename) ==
    [t |-> "filters", project_id |-> project_id, owner |-> owner, tags |-> tags,
     filename |-> filename]

\* as RequiredTagsPresent, with one of the required tags being enough
RequiredTagsPresent_AnyTag(doc_tags, tags) ==
    LET doc_lookup == {<<doc_tags[i].name, doc_tags[i].value>> : i \in DOMAIN doc_tags}
    IN  \E i \in DOMAIN tags : <<tags[i].name, tags[i].value>> \in doc_lookup

\* every tag of filters.tags is in doc_lookup
RequiredTagsPresent(doc_tags, tags) ==
    LET doc_lookup == {<<doc_tags[i].name, doc_tags[i].value>> : i \in DOMAIN doc_tags}
    IN  \A i \in DOMAIN tags : <<tags[i].name, tags[i].value>> \in doc_lookup

\* the tags filter on the document's normalized tags
TagsMatch(doc_tags, tags) ==
    IF doc_tags.raised # "" THEN Raise(doc_tags.raised)
    ELSE Return(RequiredTagsPresent(doc_tags.val, tags))

\* metadata_matches_filters
metadata_matches_filters(metadata, filters) ==
    IF Truthy(filters.project_id)
       /\ ~PyEq(DictGet(metadata, k_project_id, None), filters.project_id)
    THEN Return(FALSE)
    ELSE IF Truthy(filters.owner) /\ ~PyEq(metadata_owner(metadata), filters.owner)
    THEN Return(FALSE)
    ELSE IF filters.tags = <<>> THEN Return(TRUE)
    ELSE TagsMatch(metadata_tags(metadata), filters.tags)

(***************************************************************************)
(* Identity                                                                *)
(***************************************************************************)
k_roles == <<"r","o","l","e","s">>

\* role_values.extend(roles): the items of a list, the characters of a text
ExtendedBy(roles) ==
    IF roles.t = "list" THEN {roles.items[i].s : i \in DOMAIN roles.items}
    ELSE IF roles.t = "str" THEN {<<roles.s[i]>> : i \in DOMAIN roles.s}
    ELSE {}

\* CurrentUser.__init__: user_id falls back to username; roles is the set of
\* the non-empty role, roles and metadata["roles"] values (the code keeps it
\* as the sorted list of that set and reads it by membership only)
CurrentUser(username, user_id, role, metadata, is_authenticated, roles) ==
    LET token_roles == DictGet(PyOr(metadata, DictV(<<>>)), k_roles, ListV(<<>>))
        role_values ==
            (IF role # <<>> THEN {role} ELSE {})
            \cup (IF Truthy(roles) THEN ExtendedBy(roles) ELSE {})
            \cup (IF token_roles.t = "list"
                  THEN {PyStr(token_roles.items[i]) : i \in DOMAIN token_roles.items}
                  ELSE IF token_roles.t = "str" THEN {token_roles.s} ELSE {})
    IN  [is_authenticated |-> is_authenticated,
         user_id |-> PyOr(user_id, username),
         role |-> role,
         roles |-> {r \in role_values : r # <<>>}]

k_username == <<"u","s","e","r","n","a","m","e">>
k_role == <<"r","o","l","e">>
k_metadata == <<"m","e","t","a","d","a","t","a">>

\* auth_handler.validate_token: the payload of the token, or an error for a
\* token that is not valid
validate_token(token) ==
    IF token.valid THEN Return(token.info) ELSE Raise("HTTPException")

\* the CurrentUser of a validated token
TokenUser(token_info, metadata) ==
    CurrentUser(DictGet(token_info, k_username, None),
                PyOr(DictGet(metadata, k_user_id, None), DictGet(token_info, k_username, None)),
                DictGet(token_info, k_role, StrV(s_user)).s,
                metadata, TRUE, DictGet(metadata, k_roles, None))

\* get_current_user_optional
get_current_user_optional(token) ==
    IF token.t = "none" THEN CurrentUser(None, None, <<"g","u","e","s","t">>, None, FALSE, None)
    ELSE IF validate_token(token).raised # ""
    THEN CurrentUser(None, None, <<"g","u","e","s","t">>, None, FALSE, None)
    ELSE TokenUser(validate_token(token).val, DictGet(validate_token(token).val, k_metadata, DictV(<<>>)))

(***************************************************************************)
(* Access evaluation                                                       *)
(***************************************************************************)
\* as matches_user, with the wildcard compared as written
matches_user_ExactWildcard(entry, user_id, user_roles) ==
    IF entry.target_type = s_user /\ Truthy(user_id)
    THEN (IF entry.identifier \in {s_all, s_star} THEN TRUE
          ELSE PyEq(StrV(entry.identifier), user_id))
    ELSE IF entry.target_type = s_role
    THEN (IF entry.identifier \in {s_all, s_star} THEN TRUE
          ELSE entry.identifier \in user_roles)
    ELSE FALSE

\* as matches_user, with the identifier compared to user_id in lower case
matches_user_CaselessId(entry, user_id, user_roles) ==
    IF entry.target_type = s_user /\ Truthy(user_id)
    THEN (IF StrLower(entry.identifier) \in {s_all, s_star} THEN TRUE
          ELSE PyEq(StrV(StrLower(entry.identifier)), user_id))
    ELSE IF entry.target_type = s_role
    THEN (IF StrLower(entry.identifier) \in {s_all, s_star} THEN TRUE
          ELSE entry.identifier \in user_roles)
    ELSE FALSE

\* ShareEntry.matches_user
matches_user(entry, user_id, user_roles) ==
    IF entry.target_type = s_user /\ Truthy(user_id)
    THEN (IF StrLower(entry.identifier) \in {s_all, s_star} THEN TRUE
          ELSE PyEq(StrV(entry.identifier), user_id))
    ELSE IF entry.target_type = s_role
    THEN (IF StrLower(entry.identifier) \in {s_all, s_star} THEN TRUE
          ELSE entry.identifier \in user_roles)
    ELSE FALSE

\* as allows, with the order of the permissions reversed: a view entry
\* allows everything, an edit entry edit only
allows_ViewAllowsAll(entry, required) ==
    IF entry.permission = VIEW THEN TRUE ELSE entry.permission = required

\* as allows, without edit implying view
allows_ExactOnly(entry, required) == entry.permission = required

\* ShareEntry.allows
allows(entry, required) ==
    IF entry.permission = EDIT THEN TRUE ELSE entry.permission = required

\* doc_file_path
doc_file_path(doc_status) == doc_status.file_path

\* the metadata of a status record: (metadata_source or {}).copy()
DocMetadata(doc_status) == PyOr(doc_status.metadata, DictV(<<>>))

\* the filename filter on the record's file_path
FilenameMatches(doc_status, filters) ==
    LET file_path == doc_file_path(doc_status)
    IN  Truthy(filters.filename) =>
            (Truthy(file_path) /\ StrContains(filters.filename.s, file_path.s))

\* is_public
IsPublic(metadata) == Truthy(DictGet(metadata, k_is_public, BoolV(FALSE)))

\* as IsOwner, without the legacy user_id key
IsOwner_NoLegacyKey(metadata, user_id) ==
    LET owner_id == DictGet(metadata, k_owner, None)
    IN  IF Truthy(owner_id) /\ Truthy(user_id) THEN PyEq(owner_id, user_id) ELSE FALSE

\* is_owner
IsOwner(metadata, user_id) ==
    LET owner_id == metadata_owner(metadata)
    IN  IF Truthy(owner_id) /\ Truthy(user_id) THEN PyEq(owner_id, user_id) ELSE FALSE

\* is_uploader
IsUploader(metadata, user_id) ==
    LET uploaded_by == DictGet(metadata, k_uploaded_by, None)
    IN  IF Truthy(uploaded_by) /\ Truthy(user_id) THEN PyEq(uploaded_by, user_id) ELSE FALSE

\* has_role_access, over the items of allowed_roles
HasRoleAccess(allowed_roles, user_roles) ==
    \E i \in DOMAIN allowed_roles :
        allowed_roles[i].t = "str" /\ allowed_roles[i].s \in user_roles

\* as ShareGrant, with any matching entry granting any permission
ShareGrant_AnyPermission(share_entries, user_id, user_roles, include_shared, required_permission) ==
    /\ include_shared
    /\ \E i \in DOMAIN share_entries : matches_user(share_entries[i], user_id, user_roles)

\* Check 2: some share entry matches the caller and allows the permission
ShareGrant(share_entries, user_id, user_roles, include_shared, required_permission) ==
    /\ include_shared
    /\ share_entries # <<>>
    /\ \E i \in DOMAIN share_entries :
          /\ matches_user(share_entries[i], user_id, user_roles)
          /\ allows(share_entries[i], required_permission)

\* as RoleGrant, for any permission
RoleGrant_AnyPermission(has_role_access, required_permission) == has_role_access

\* Check 3: the legacy allowed_roles list
RoleGrant(has_role_access, required_permission) ==
    has_role_access /\ required_permission = VIEW

\* Check 4: a public document
PublicGrant(is_public, include_public, required_permission) ==
    is_public /\ include_public /\ required_permission = VIEW

\* as UnauthenticatedAccess, without reading is_public
UnauthenticatedAccess_AnyDocument(is_public, include_public) == include_public

\* the unauthenticated path
UnauthenticatedAccess(is_public, include_public) == is_public /\ include_public

\* as AuthenticatedAccess, with the checks as an elif chain: a document with
\* share entries is decided by them alone
AuthenticatedAccess_ElifChain(metadata, share_entries, allowed_roles, current_user, include_shared, include_public, required_permission) ==
    LET user_id == current_user.user_id
        user_roles == current_user.roles
    IN  IF IsOwner(metadata, user_id) \/ IsUploader(metadata, user_id) THEN TRUE
        ELSE IF include_shared /\ share_entries # <<>>
        THEN ShareGrant(share_entries, user_id, user_roles, include_shared,
                        required_permission)
        ELSE IF HasRoleAccess(allowed_roles, user_roles)
        THEN required_permission = VIEW
        ELSE PublicGrant(IsPublic(metadata), include_public, required_permission)

\* the authenticated path: has_access after the four checks
AuthenticatedAccess(metadata, share_entries, allowed_roles, current_user, include_shared, include_public, required_permission) ==
    LET user_id == current_user.user_id
        user_roles == current_user.roles
    IN  \/ IsOwner(metadata, user_id) \/ IsUploader(metadata, user_id)
        \/ ShareGrant(share_entries, user_id, user_roles, include_shared, required_permission)
        \/ RoleGrant(HasRoleAccess(allowed_roles, user_roles), required_permission)
        \/ PublicGrant(IsPublic(metadata), include_public, required_permission)

\* the filters in force: filters or AccessFilters(project_id=project_id)
EffectiveFilters(r) ==
    IF r.filters.t = "filters" THEN r.filters
    ELSE AccessFilters(r.project_id, None, <<>>, None)

\* the authenticated checks on the share entries and the role list read
GrantDecision(metadata, r, share_entries, allowed_roles) ==
    IF share_entries.raised # "" THEN share_entries
    ELSE IF allowed_roles.raised # "" THEN allowed_roles
    ELSE Return(AuthenticatedAccess(metadata, share_entries.val, allowed_roles.val,
                                    r.current_user, r.include_shared,
                                    r.include_public, r.required_permission))

\* the gate, then the path of the caller; logged_tags is what the log line
\* of a document excluded by the metadata filter evaluates
GateDecision(doc_status, r, metadata, matches_filters, logged_tags) ==
    IF matches_filters.raised # "" THEN matches_filters
    ELSE IF ~matches_filters.val
    THEN (IF logged_tags.raised # "" THEN logged_tags ELSE Return(FALSE))
    ELSE IF ~FilenameMatches(doc_status, EffectiveFilters(r)) THEN Return(FALSE)
    ELSE IF ~r.current_user.is_authenticated
    THEN Return(UnauthenticatedAccess(IsPublic(metadata), r.include_public))
    ELSE GrantDecision(metadata, r, metadata_share_entries(metadata),
                       Iterate(PyOr(DictGet(metadata, k_allowed_roles, ListV(<<>>)),
                                    ListV(<<>>))))

\* one turn of the loop over all_docs: whether doc_status enters the result
DocAccessible(doc_status, r) ==
    GateDecision(doc_status, r, DocMetadata(doc_status),
                 metadata_matches_filters(DocMetadata(doc_status), EffectiveFilters(r)),
                 metadata_tags(DocMetadata(doc_status)))

\* doc_status_storage.get_docs_by_status(DocStatus.PROCESSED)
get_docs_by_status(docs, status) ==
    LET ids == {id \in DOMAIN docs : docs[id].status = status}
    IN  [id \in ids |-> docs[id]]

\* get_user_accessible_files, from the listing on: accessible_docs, unless
\* the metadata of some document raises
\* accessible_docs from the outcome of each turn of the loop
Collected(all_docs, outcome) ==
    LET raising == {id \in DOMAIN all_docs : outcome[id].raised # ""}
        kept == {id \in DOMAIN all_docs : outcome[id].val = TRUE}
    IN  IF raising # {}
        THEN Raise(outcome[CHOOSE id \in raising : TRUE].raised)
        ELSE Return([id \in kept |-> all_docs[id]])

\* the loop over all_docs
AccessibleDocs(all_docs, r) ==
    Collected(all_docs, [id \in DOMAIN all_docs |-> DocAccessible(all_docs[id], r)])

(***************************************************************************)
(* Propagation of the accessible set to chunks, entities and graph nodes   *)
(***************************************************************************)
k_file_path == <<"f","i","l","e","_","p","a","t","h">>

GRAPH_FIELD_SEP == <<"<","S","E","P",">">>

\* as accessible_paths, with the empty path kept
accessible_paths_WithEmpty(accessible_files) ==
    {doc_file_path(accessible_files[id]).s :
        id \in {i \in DOMAIN accessible_files : doc_file_path(accessible_files[i]).t = "str"}}

\* the paths of the accessible documents, those that are None or empty left out
accessible_paths(accessible_files) ==
    {doc_file_path(accessible_files[id]).s :
        id \in {i \in DOMAIN accessible_files : Truthy(doc_file_path(accessible_files[i]))}}

\* chunk.get("file_path") or ""
ChunkPath(chunk) == PyOr(DictGet(chunk, k_file_path, None), StrV(<<>>)).s

\* as filter_chunks_by_access, with every chunk kept
filter_chunks_by_access_Unfiltered(chunks, accessible_files) == chunks

\* as filter_chunks_by_access, with the chunk's path having to equal a document's
filter_chunks_by_access_ExactPath(chunks, accessible_files) ==
    LET kept(chunk) == ChunkPath(chunk) \in accessible_paths(accessible_files)
    IN  SelectSeq(chunks, kept)

\* filter_chunks_by_access
filter_chunks_by_access(chunks, accessible_files) ==
    LET kept(chunk) ==
            \E access_path \in accessible_paths(accessible_files) :
                StrContains(access_path, ChunkPath(chunk))
    IN  SelectSeq(chunks, kept)

\* as AnySegmentContains, with every segment having to match
AnySegmentContains_All(file_path, entity_file_paths) ==
    \A i \in DOMAIN entity_file_paths : StrContains(file_path, entity_file_paths[i])

\* any(file_path in fp for fp in entity_file_paths)
AnySegmentContains(file_path, entity_file_paths) ==
    \E i \in DOMAIN entity_file_paths : StrContains(file_path, entity_file_paths[i])

\* filter_entities_by_access: an entity is appended once, at the first
\* accessible document one of its segments contains
filter_entities_by_access(entities, accessible_files) ==
    LET kept(entity) ==
            \E file_path \in accessible_paths(accessible_files) :
                AnySegmentContains(file_path,
                    StrSplitOn(DictGet(entity, k_file_path, StrV(<<>>)).s, GRAPH_FIELD_SEP))
    IN  SelectSeq(entities, kept)

k_properties == <<"p","r","o","p","e","r","t","i","e","s">>

\* the keys of a property bag that name source files
ProvenanceKeys ==
    << k_file_path, <<"f","i","l","e","_","p","a","t","h","s">>,
       <<"s","o","u","r","c","e","s">>, <<"d","o","c","u","m","e","n","t","s">> >>

\* what one property value adds to file_values
FileValuesOf(value) ==
    LET isText(v) == v.t = "str"
        texts == SelectSeq(value.items, isText)
    IN  IF value.t = "str" THEN <<value.s>>
        ELSE IF value.t = "list" THEN [i \in DOMAIN texts |-> texts[i].s]
        ELSE <<>>

\* file_values of node_accessible
file_values(props) ==
    FileValuesOf(DictGet(props, ProvenanceKeys[1], None))
    \o FileValuesOf(DictGet(props, ProvenanceKeys[2], None))
    \o FileValuesOf(DictGet(props, ProvenanceKeys[3], None))
    \o FileValuesOf(DictGet(props, ProvenanceKeys[4], None))

\* as AnyValueAccessible, with a node without values refused
AnyValueAccessible_DenyByDefault(values, paths) ==
    \E i \in DOMAIN values : \E access_path \in paths : StrContains(access_path, values[i])

\* the decision of node_accessible on the values collected
AnyValueAccessible(values, paths) ==
    IF values = <<>> THEN TRUE
    ELSE \E i \in DOMAIN values : \E access_path \in paths :
            StrContains(access_path, values[i])

\* get_knowledge_graph.node_accessible
node_accessible(node, paths) ==
    IF DictGet(node, k_properties, None).t # "dict" THEN TRUE
    ELSE AnyValueAccessible(file_values(DictGet(node, k_properties, None)), paths)

\* as FilteredEdges, with one endpoint in allowed_ids being enough
FilteredEdges_EitherEndpoint(edges, allowed_ids) ==
    LET kept(edge) ==
            \/ DictGet(edge, <<"s","o","u","r","c","e">>, None) \in allowed_ids
            \/ DictGet(edge, <<"t","a","r","g","e","t">>, None) \in allowed_ids
    IN  SelectSeq(edges, kept)

\* the edges whose source and target are in allowed_ids
FilteredEdges(edges, allowed_ids) ==
    LET kept(edge) ==
            /\ DictGet(edge, <<"s","o","u","r","c","e">>, None) \in allowed_ids
            /\ DictGet(edge, <<"t","a","r","g","e","t">>, None) \in allowed_ids
    IN  SelectSeq(edges, kept)

\* the nodes and edges of the graph that get_knowledge_graph returns
FilteredGraph(nodes, edges, filtered_nodes) ==
    [nodes |-> filtered_nodes,
     edges |-> FilteredEdges(edges, {DictGet(filtered_nodes[i], <<"i","d">>, None) :
                                        i \in DOMAIN filtered_nodes})]

\* get_knowledge_graph, from accessible_paths on
filter_graph(graph, accessible_docs) ==
    LET kept(node) == node_accessible(node, accessible_paths(accessible_docs))
    IN  FilteredGraph(graph.nodes, graph.edges, SelectSeq(graph.nodes, kept))

(***************************************************************************)
(* The routes that call the resolver: POST /query_nofilter,                *)
(* /query_nofilter/stream and /query/data, and GET /graphs, for requests   *)
(* that do not ask for the context only. A handler awaits the resolver,    *)
(* then the retrieval engine; an exception raised inside it is caught by   *)
(* its `except Exception` and raised again with status 500.                *)
(***************************************************************************)
NoAccessibleDetail == "No accessible documents found for the provided metadata filters."

PleaseAuthenticateDetail == "Please authenticate or provide appropriate metadata to access documents."

HTTPException(status_code, detail) ==
    [raised |-> "HTTPException", val |-> [status_code |-> status_code, detail |-> detail]]

\* str(e): status and detail of an HTTPException, else the error itself
StrOfException(e) ==
    IF e.raised = "HTTPException"
    THEN ToString(e.val.status_code) \o ": " \o e.val.detail
    ELSE e.raised

\* except Exception as e: raise HTTPException(status_code=500, ...)
RouteFails(route, e) ==
    IF route = "get_knowledge_graph"
    THEN HTTPException(500, "Error getting knowledge graph: " \o StrOfException(e))
    ELSE HTTPException(500, StrOfException(e))

\* build_access_filters
build_access_filters(payload) ==
    IF payload.t = "none" THEN AccessFilters(None, None, <<>>, None)
    ELSE AccessFilters(payload.project_id, payload.owner,
                       normalize_tag_items(payload.tags).val, payload.filename)

\* the filters of get_knowledge_graph, from its query parameters
GraphFilters(payload) ==
    IF payload.t = "none" THEN AccessFilters(None, None, normalize_tag_items(None).val, None)
    ELSE AccessFilters(payload.project_id, payload.owner,
                       normalize_tag_items(payload.tags).val, None)

RouteFilters(route, payload) ==
    IF route = "get_knowledge_graph" THEN GraphFilters(payload)
    ELSE build_access_filters(payload)

\* the arguments of the call of get_user_accessible_files by a route
ResolverRequest(current_user, filters) ==
    [current_user |-> current_user, project_id |-> filters.project_id,
     include_shared |-> TRUE, include_public |-> TRUE,
     required_permission |-> VIEW, filters |-> filters]

\* the filename filter of the query routes on the accessible documents
PostFiltered(accessible_docs, filters) ==
    IF Truthy(filters.filename)
    THEN [id \in {d \in DOMAIN accessible_docs :
                    StrContains(filters.filename.s,
                                PyOr(doc_file_path(accessible_docs[d]), StrV(<<>>)).s)}
             |-> accessible_docs[id]]
    ELSE accessible_docs

\* list(accessible_docs.keys())
KeysOf(accessible_docs, order) ==
    PickInOrder(order, {i \in DOMAIN order : order[i] \in DOMAIN accessible_docs})

\* as apply_doc_id_filter, with the ids of the caller passed on as they are
apply_doc_id_filter_Unfiltered(ids, accessible_docs, order) ==
    IF ids.t = "list" /\ ids.items # <<>>
    THEN [ids |-> ids.items, any |-> TRUE]
    ELSE [ids |-> KeysOf(accessible_docs, order), any |-> DOMAIN accessible_docs # {}]

\* apply_doc_id_filter: the new param.ids and the value returned
apply_doc_id_filter(ids, accessible_docs, order) ==
    LET accessible(doc_id) == doc_id \in DOMAIN accessible_docs
    IN  IF ids.t = "list" /\ ids.items # <<>>
        THEN [ids |-> SelectSeq(ids.items, accessible),
              any |-> SelectSeq(ids.items, accessible) # <<>>]
        ELSE [ids |-> KeysOf(accessible_docs, order), any |-> DOMAIN accessible_docs # {}]

\* what a handler does once a step of it is taken: it ends with ret, or it
\* awaits the engine called with call
Ends(outcome) == [next |-> "done", ret |-> outcome, docs |-> <<>>, call |-> None]

Awaits(accessible_docs, call) ==
    [next |-> "engine", ret |-> None, docs |-> accessible_docs, call |-> call]

\* the answer of a route without accessible documents
NoDocuments(route, current_user) ==
    IF route = "query_text"
    THEN Ends(Return([response |-> IF current_user.is_authenticated
                                   THEN NoAccessibleDetail ELSE PleaseAuthenticateDetail]))
    ELSE Ends(RouteFails(route, HTTPException(403, NoAccessibleDetail)))

\* the name of the engine's method that a route calls
EngineOf(route) ==
    IF route = "query_data" THEN "aquery_data"
    ELSE IF route = "get_knowledge_graph" THEN "get_knowledge_graph" ELSE "aquery"

\* a query route after apply_doc_id_filter
IdGate(route, current_user, accessible_docs, filtered) ==
    IF ~filtered.any THEN NoDocuments(route, current_user)
    ELSE Awaits(accessible_docs, [fn |-> EngineOf(route), ids |-> filtered.ids])

\* a route after its resolver call and filename filter
DocsGate(route, r, accessible_docs, order) ==
    IF DOMAIN accessible_docs = {} THEN NoDocuments(route, r.current_user)
    ELSE IF route = "get_knowledge_graph"
    THEN Awaits(accessible_docs, [fn |-> EngineOf(route), ids |-> <<>>])
    ELSE IdGate(route, r.current_user, accessible_docs,
                apply_doc_id_filter(r.ids, accessible_docs, order))

\* a route from the answer of the resolver to the call of the engine
AfterResolver(route, r, filters, outcome, order) ==
    IF outcome.raised # "" THEN Ends(RouteFails(route, outcome))
    ELSE IF route = "get_knowledge_graph" THEN DocsGate(route, r, outcome.val, order)
    ELSE DocsGate(route, r, PostFiltered(outcome.val, filters), order)

\* the metadata that query_data adds to its response
DataMetadata(accessible_docs, filters) ==
    [accessible_files |-> accessible_paths(accessible_docs),
     total_accessible_files |-> Cardinality(DOMAIN accessible_docs),
     applied_filters |-> filters]

\* a route from the answer of the engine to its response
AfterEngine(route, response, accessible_docs, filters) ==
    IF route = "query_data"
    THEN (IF response.t = "dict"
          THEN Return([entities |-> filter_entities_by_access(response.entities, accessible_docs),
                       relationships |-> filter_entities_by_access(response.relationships, accessible_docs),
                       chunks |-> filter_chunks_by_access(response.chunks, accessible_docs),
                       metadata |-> DataMetadata(accessible_docs, filters)])
          ELSE Return([entities |-> <<>>, relationships |-> <<>>, chunks |-> <<>>,
                       metadata |-> [error |-> "Unexpected response format"]]))
    ELSE IF route = "get_knowledge_graph" THEN Return(filter_graph(response, accessible_docs))
    ELSE Return([response |-> response])

(***************************************************************************)
(* Names used by the inputs                                                *)
(***************************************************************************)
s_alice == <<"a","l","i","c","e">>
s_bob == <<"b","o","b">>
s_carol == <<"c","a","r","o","l">>
s_admin == <<"a","d","m","i","n">>
s_staff == <<"s","t","a","f","f">>
s_guest == <<"g","u","e","s","t">>
s_group == <<"g","r","o","u","p">>
s_dept == <<"d","e","p","t">>
s_eng == <<"e","n","g">>
s_sales == <<"s","a","l","e","s">>

Returned == "raised" \in DOMAIN ret

(***************************************************************************)
(* The strict parser on every text of at most MaxFields colon-separated    *)
(* fields, each field one of Fields.                                       *)
(***************************************************************************)
MaxFields == 4

Fields ==
    { <<>>, <<" ">>, s_user, <<"R","o","l","e">>, s_group,
      <<" ","V","i","e","w"," ">>, s_edit, <<"o","w","n">>, <<"B","o","b">> }

RECURSIVE Tuples(_, _)
Tuples(S, n) ==
    IF n = 0 THEN {<<>>}
    ELSE {<<x>> \o t : x \in S, t \in Tuples(S, n - 1)}

EntryTexts ==
    UNION {{StrJoin(fs, <<":">>) : fs \in Tuples(Fields, n)} : n \in 1..MaxFields}

InitParse ==
    /\ op = "parse_share_entry"
    /\ arg \in EntryTexts
    /\ ret = None
    /\ store = <<>>
    /\ pc = "idle"
    /\ req = None
    /\ result = <<>>

ParseShareEntry ==
    /\ op = "parse_share_entry"
    /\ ~Returned
    /\ ret' = parse_share_entry(arg)
    /\ UNCHANGED <<op, arg, store, pc, req, result>>

NextParse == ParseShareEntry

SpecParse == InitParse /\ [][NextParse]_vars

(***************************************************************************)
(* The normalizers on raw payloads: absent, texts (empty, free, comma      *)
(* separated, JSON), scalars, mappings, and every list of at most MaxItems *)
(* items.                                                                  *)
(***************************************************************************)
MaxItems == 2

EntryText(kind, perm, ident) == kind \o <<":">> \o perm \o <<":">> \o ident

ShareRecord(kind, perm, ident) ==
    DictV(<< <<k_target_type, kind>>, <<k_permission, perm>>, <<k_identifier, ident>> >>)

PayloadItems ==
    { None, IntV(7), StrV(<<>>),
      StrV(s_dept \o <<":">> \o s_eng),
      StrV(<<" ","l","v","l"," ">>),
      StrV(s_user \o <<":">> \o s_view \o <<":">> \o s_bob),
      StrV(<<"R","o","l","e"," ",":"," ","E","D","I","T"," ",":"," ">> \o s_admin),
      StrV(s_group \o <<":">> \o s_view \o <<":">> \o s_bob),
      StrV(s_user \o <<":">> \o <<"o","w","n">> \o <<":">> \o s_bob),
      StrV(s_user \o <<":">> \o s_view \o <<":">>),
      DictV(<< <<k_name, StrV(s_dept)>>, <<k_value, StrV(s_eng)>> >>),
      DictV(<< <<k_value, StrV(s_eng)>> >>),
      ShareRecord(StrV(s_user), StrV(s_view), StrV(s_bob)),
      ShareRecord(StrV(s_group), StrV(s_view), StrV(s_bob)),
      ShareRecord(StrV(s_role), StrV(<<"o","w","n">>), StrV(s_admin)),
      ShareRecord(StrV(s_role), StrV(s_edit), StrV(<<" ">>)),
      EntryV(ShareEntry(s_user, VIEW, s_bob)),
      ListV(<<StrV(s_dept)>>) }

\* the JSON text of a list of the texts among `items`
JsonTextOf(items) ==
    LET isText(x) == x.t = "str"
        texts == SelectSeq(items, isText)
        quoted == [i \in DOMAIN texts |-> <<"\"">> \o texts[i].s \o <<"\"">>]
    IN  <<"[">> \o StrJoin(quoted, <<","," ">>) \o <<"]">>

\* the comma-separated text of the texts among `items`
CommaTextOf(items) ==
    LET isText(x) == x.t = "str"
        texts == SelectSeq(items, isText)
    IN  StrJoin([i \in DOMAIN texts |-> texts[i].s], <<",">>)

PayloadLists == UNION {Tuples(PayloadItems, n) : n \in 0..MaxItems}

RawPayloads ==
    {None, StrV(<<>>), StrV(<<" ">>), IntV(7), IntV(0), BoolV(TRUE),
     StrV(<<"n","u","l","l">>), StrV(<<"7">>), StrV(<<"[">>),
     StrV(<<"{","\"">> \o s_dept \o <<"\"",":"," ","\"">> \o s_eng \o <<"\"","}">>),
     DictV(<< <<s_dept, StrV(s_eng)>>, <<<<"l","v","l">>, IntV(7)>> >>),
     DictV(<<>>),
     StrV(<<"d","e","p","t"," ",":"," ","e","n","g"," ",","," ","l","v","l">>),
     StrV(EntryText(s_user, s_view, s_bob) \o <<","," ">>
          \o EntryText(s_role, s_edit, s_admin) \o <<",">>
          \o EntryText(s_user, s_view, s_bob)),
     ListV(<<StrV(s_dept \o <<":">> \o s_eng), StrV(<<" ","l","v","l"," ">>),
             DictV(<< <<k_name, StrV(s_dept)>>, <<k_value, StrV(s_eng)>> >>)>>) }
    \cup PayloadItems
    \cup {ListV(items) : items \in PayloadLists}
    \cup {StrV(JsonTextOf(items)) : items \in PayloadLists}
    \cup {StrV(CommaTextOf(items)) : items \in PayloadLists}

InitNormalize ==
    /\ op \in {"normalize_tag_items", "normalize_share_items"}
    /\ arg \in RawPayloads
    /\ ret = None
    /\ store = <<>>
    /\ pc = "idle"
    /\ req = None
    /\ result = <<>>

NormalizeTagItems ==
    /\ op = "normalize_tag_items"
    /\ ~Returned
    /\ ret' = normalize_tag_items(arg)
    /\ UNCHANGED <<op, arg, store, pc, req, result>>

NormalizeShareItems ==
    /\ op = "normalize_share_items"
    /\ ~Returned
    /\ ret' = normalize_share_items(arg)
    /\ UNCHANGED <<op, arg, store, pc, req, result>>

\* the list normalize_tag_items returned, as the payload of a second call
TagsPayload(tags) ==
    ListV([i \in DOMAIN tags |->
            DictV(<< <<k_name, StrV(tags[i].name)>>, <<k_value, StrV(tags[i].value)>> >>)])

\* normalize_tag_items(normalize_tag_items(arg))
NormalizeTagsAgain ==
    /\ op = "normalize_tag_items"
    /\ Returned
    /\ ret.raised = ""
    /\ pc = "idle"
    /\ result' = normalize_tag_items(TagsPayload(ret.val))
    /\ pc' = "again"
    /\ UNCHANGED <<op, arg, ret, store, req>>

NextNormalize == NormalizeTagItems \/ NormalizeShareItems \/ NormalizeTagsAgain

SpecNormalize == InitNormalize /\ [][NextNormalize]_vars

(***************************************************************************)
(* ShareEntry.matches_user and ShareEntry.allows on entries of every kind   *)
(* and identifier of EntryIdentifiers, for callers with and without a       *)
(* user_id and roles.                                                       *)
(***************************************************************************)
EntryIdentifiers ==
    { s_bob, <<"B","o","b">>, s_admin, s_star, s_all, <<"A","L","L">>, <<"a","L","l">> }

Entries ==
    { ShareEntry(kind, permission, identifier) :
        kind \in {s_user, s_role, s_group}, permission \in {VIEW, EDIT},
        identifier \in EntryIdentifiers }

UserIds == { None, StrV(<<>>), StrV(s_bob), StrV(s_alice) }

RoleSets == { {}, {s_admin}, {s_user, s_staff} }

InitEntry ==
    /\ op \in {"matches_user", "allows"}
    /\ arg \in [entry : Entries, user_id : UserIds, user_roles : RoleSets,
                 required : {VIEW, EDIT}]
    /\ ret = None
    /\ store = <<>>
    /\ pc = "idle"
    /\ req = None
    /\ result = <<>>

MatchesUser ==
    /\ op = "matches_user"
    /\ ~Returned
    /\ ret' = Return(matches_user(arg.entry, arg.user_id, arg.user_roles))
    /\ UNCHANGED <<op, arg, store, pc, req, result>>

Allows ==
    /\ op = "allows"
    /\ ~Returned
    /\ ret' = Return(allows(arg.entry, arg.required))
    /\ UNCHANGED <<op, arg, store, pc, req, result>>

NextEntry == MatchesUser \/ Allows

SpecEntry == InitEntry /\ [][NextEntry]_vars

(***************************************************************************)
(* Documents, callers and requests of the resolver                         *)
(***************************************************************************)
s_p1 == <<"p","1">>
s_p2 == <<"p","2">>
s_a_pdf == <<"a",".","p","d","f">>
s_b_pdf == <<"b",".","p","d","f">>

Absent == [t |-> "absent"]

\* a dict of the pairs whose value is present
DictOf(pairs) ==
    LET present(p) == p[2].t # "absent"
    IN  DictV(SelectSeq(pairs, present))

\* the sharing metadata of a document: share_parsed, share, access_control
Sharings ==
    { <<Absent, Absent, Absent>>,
      <<Absent, ListV(<<StrV(EntryText(s_user, s_view, s_bob))>>), Absent>>,
      <<Absent, ListV(<<StrV(EntryText(s_user, s_edit, s_bob))>>), Absent>>,
      <<Absent, StrV(EntryText(s_role, s_view, s_admin) \o <<","," ">>
                     \o EntryText(s_user, s_view, s_carol)), Absent>>,
      <<ListV(<<ShareRecord(StrV(s_user), StrV(s_view), StrV(<<"*">>))>>), Absent, Absent>>,
      <<Absent, ListV(<<StrV(EntryText(s_role, s_edit, <<"A","L","L">>))>>), Absent>>,
      <<Absent, Absent,
        DictV(<< <<k_owner, StrV(s_alice)>>, <<k_viewers, ListV(<<StrV(s_bob)>>)>> >>)>>,
      <<Absent, Absent, DictV(<< <<k_editors, ListV(<<StrV(s_bob)>>)>> >>)>>,
      <<ListV(<<ShareRecord(StrV(s_user), StrV(s_view), StrV(s_bob))>>),
        StrV(EntryText(s_user, s_view, s_bob) \o <<","," ">>
             \o EntryText(s_role, s_edit, s_admin)),
        DictV(<< <<k_owner, StrV(s_alice)>>, <<k_viewers, ListV(<<StrV(s_bob)>>)>>,
                 <<k_editors, ListV(<<StrV(s_bob), StrV(s_alice)>>)>> >>)>>,
      <<ListV(<<ShareRecord(StrV(s_group), StrV(s_view), StrV(s_bob))>>), Absent,
        DictV(<< <<k_viewers, ListV(<<StrV(<<>>)>>)>> >>)>> }

DocRecord(status, file_path, owner, user_id, uploaded_by, sharing, allowed_roles, is_public, project_id, tags) ==
    [status |-> status,
     file_path |-> file_path,
     metadata |-> DictOf(<< <<k_owner, owner>>, <<k_user_id, user_id>>,
                            <<k_uploaded_by, uploaded_by>>,
                            <<k_share_parsed, sharing[1]>>, <<k_share, sharing[2]>>,
                            <<k_access_control, sharing[3]>>,
                            <<k_allowed_roles, allowed_roles>>,
                            <<k_is_public, is_public>>,
                            <<k_project_id, project_id>>, <<k_tags, tags>> >>)]

TagsEng == StrV(s_dept \o <<":">> \o s_eng)
TagsSales == ListV(<<DictV(<< <<k_name, StrV(s_dept)>>, <<k_value, StrV(s_sales)>> >>)>>)

\* documents that differ in what grants access, in project p1 with tag dept:eng
GrantDocs ==
    { DocRecord("PROCESSED", StrV(s_a_pdf), owner, user_id, uploaded_by, sharing,
                allowed_roles, is_public, StrV(s_p1), TagsEng) :
        owner \in {Absent, StrV(s_alice), StrV(s_bob)},
        user_id \in {Absent, StrV(s_bob)},
        uploaded_by \in {Absent, StrV(s_bob)},
        sharing \in Sharings,
        allowed_roles \in {Absent, ListV(<<StrV(s_admin), StrV(s_staff), StrV(s_guest)>>)},
        is_public \in {Absent, BoolV(TRUE)} }

\* documents that differ in what the filters read, and in processing state
GateDocs ==
    { DocRecord(status, file_path, owner, Absent, Absent, <<Absent, Absent, Absent>>,
                Absent, is_public, project_id, tags) :
        status \in {"PROCESSED", "PENDING"},
        file_path \in {None, StrV(s_a_pdf), StrV(s_b_pdf)},
        owner \in {StrV(s_alice), StrV(s_bob)},
        is_public \in {BoolV(FALSE), BoolV(TRUE)},
        project_id \in {Absent, StrV(s_p1)},
        tags \in {Absent, TagsEng, TagsSales} }

\* a few documents for the stores of several documents; the share value of
\* the last is a number
FewDocs ==
    { DocRecord("PROCESSED", StrV(s_a_pdf), StrV(s_alice), Absent, Absent,
                <<Absent, Absent, Absent>>, Absent, BoolV(FALSE), StrV(s_p1), TagsEng),
      DocRecord("PROCESSED", StrV(s_b_pdf), StrV(s_bob), Absent, Absent,
                <<Absent, Absent, Absent>>, Absent, BoolV(TRUE), Absent, Absent),
      DocRecord("FAILED", StrV(s_b_pdf), StrV(s_bob), Absent, Absent,
                <<Absent, Absent, Absent>>, Absent, BoolV(TRUE), StrV(s_p1), TagsEng),
      DocRecord("PROCESSED", None, StrV(s_carol), Absent, Absent,
                <<Absent, ListV(<<StrV(EntryText(s_user, s_view, s_bob))>>), Absent>>,
                Absent, Absent, StrV(s_p1), TagsSales),
      DocRecord("PROCESSED", StrV(s_a_pdf), StrV(s_alice), Absent, Absent,
                <<Absent, IntV(7), Absent>>, Absent, Absent, StrV(s_p1), TagsEng) }

MaxDocs == 2

DocIds == <<"d1", "d2", "d3", "d4">>

StoreOf(docs) == [id \in {DocIds[i] : i \in DOMAIN docs} |->
                    docs[CHOOSE i \in DOMAIN docs : DocIds[i] = id]]

\* the stores: one document of any kind, or up to MaxDocs of the few
Stores ==
    {StoreOf(<<doc>>) : doc \in GrantDocs \cup GateDocs}
    \cup UNION {{StoreOf(docs) : docs \in Tuples(FewDocs, n)} : n \in 0..MaxDocs}

Guest == CurrentUser(None, None, s_guest, None, FALSE, None)

Callers ==
    { Guest,
      CurrentUser(StrV(s_bob), None, s_user, None, TRUE, None),
      CurrentUser(StrV(s_bob), StrV(s_bob), s_user, None, TRUE, ListV(<<StrV(s_admin)>>)),
      CurrentUser(StrV(s_carol), None, s_staff,
                  DictV(<< <<k_roles, StrV(s_user)>> >>), TRUE, None),
      CurrentUser(None, None, s_user, None, TRUE, None) }

Request(current_user, project_id, include_shared, include_public, required_permission, filters) ==
    [current_user |-> current_user, project_id |-> project_id,
     include_shared |-> include_shared, include_public |-> include_public,
     required_permission |-> required_permission, filters |-> filters]

FilterChoices ==
    { AccessFilters(StrV(s_p1), None, <<>>, None),
      AccessFilters(StrV(s_p2), None, <<>>, None),
      AccessFilters(None, StrV(s_alice), <<>>, None),
      AccessFilters(None, None, <<Tag(s_dept, s_eng)>>, None),
      AccessFilters(None, None, <<Tag(s_dept, s_eng), Tag(<<"l","v","l">>, <<>>)>>, None),
      AccessFilters(None, None, <<>>, StrV(<<"a",".">>)) }

\* the project_id and filters arguments of a call
FilterArgs ==
    {<<None, None>>, <<StrV(s_p1), None>>} \cup {<<f.project_id, f>> : f \in FilterChoices}

Requests ==
    { Request(u, fa[1], s, p, perm, fa[2]) :
        u \in Callers, s \in BOOLEAN, p \in BOOLEAN, perm \in {VIEW, EDIT},
        fa \in FilterArgs }

(***************************************************************************)
(* get_user_accessible_files on a document store                           *)
(***************************************************************************)
Init ==
    /\ op = "get_user_accessible_files"
    /\ arg = None
    /\ ret = None
    /\ store \in Stores
    /\ pc = "idle"
    /\ req = None
    /\ result = <<>>

\* the call, up to the await of the listing
Call ==
    /\ pc = "idle"
    /\ \E r \in Requests : req' = r
    /\ pc' = "listing"
    /\ UNCHANGED <<op, arg, ret, store, result>>

\* the listing returns the PROCESSED documents and the call runs to its end
ListReturns ==
    /\ pc = "listing"
    /\ arg' = get_docs_by_status(store, "PROCESSED")
    /\ ret' = AccessibleDocs(arg', req)
    /\ result' = IF ret'.raised = "" THEN ret'.val ELSE <<>>
    /\ pc' = IF ret'.raised = "" THEN "done" ELSE "failed"
    /\ UNCHANGED <<op, store, req>>

\* as ListFails, with the error answered by an empty result
ListFails_Swallowed ==
    /\ pc = "listing"
    /\ ret' = Return(<<>>)
    /\ pc' = "done"
    /\ UNCHANGED <<op, arg, store, req, result>>

\* the listing fails: the error leaves the call as it is
ListFails ==
    /\ pc = "listing"
    /\ ret' = Raise("StorageError")
    /\ pc' = "failed"
    /\ UNCHANGED <<op, arg, store, req, result>>

Next == Call \/ ListReturns \/ ListFails

Spec == Init /\ [][Next]_vars

(***************************************************************************)
(* Concurrent calls of get_user_accessible_files on one document store.    *)
(* A call suspends once, at the await of the listing: the store answers    *)
(* with the PROCESSED documents it holds at that moment and the call runs  *)
(* to its end when it is resumed. Ingestion changes the store meanwhile.   *)
(***************************************************************************)
MaxCalls == 2

Calls == 1..MaxCalls

ConcurrentDocs ==
    << DocRecord("PROCESSED", StrV(s_a_pdf), StrV(s_bob), Absent, Absent,
                 <<Absent, Absent, Absent>>, Absent, Absent, Absent, Absent),
       DocRecord("PROCESSED", StrV(s_b_pdf), StrV(s_alice), Absent, Absent,
                 <<Absent, Absent, Absent>>, Absent, BoolV(TRUE), Absent, Absent),
       DocRecord("PROCESSED", StrV(s_b_pdf), StrV(s_alice), Absent, Absent,
                 <<Absent, ListV(<<StrV(EntryText(s_user, s_view, s_bob))>>), Absent>>,
                 Absent, Absent, Absent, Absent) >>

ConcurrentStores == {StoreOf(SubSeq(ConcurrentDocs, 1, n)) : n \in 0..Len(ConcurrentDocs)}

ConcurrentRequests ==
    { Request(u, None, TRUE, TRUE, perm, None) :
        u \in {Guest, CurrentUser(StrV(s_bob), None, s_user, None, TRUE, None)},
        perm \in {VIEW, EDIT} }

InitConcurrent ==
    /\ op = "get_user_accessible_files"
    /\ arg = [i \in Calls |-> None]
    /\ ret = [i \in Calls |-> None]
    /\ store \in ConcurrentStores
    /\ pc = [i \in Calls |-> "idle"]
    /\ req = [i \in Calls |-> None]
    /\ result = [i \in Calls |-> <<>>]

\* call i, up to the await of the listing
CallOf(i) ==
    /\ pc[i] = "idle"
    /\ \E r \in ConcurrentRequests : req' = [req EXCEPT ![i] = r]
    /\ pc' = [pc EXCEPT ![i] = "listing"]
    /\ UNCHANGED <<op, arg, ret, store, result>>

\* the store answers the listing of call i
ListingOf(i) ==
    /\ pc[i] = "listing"
    /\ arg' = [arg EXCEPT ![i] = get_docs_by_status(store, "PROCESSED")]
    /\ pc' = [pc EXCEPT ![i] = "listed"]
    /\ UNCHANGED <<op, ret, store, req, result>>

\* the outcome of a call resumed with all_docs
Resumed(i, outcome) ==
    /\ ret' = [ret EXCEPT ![i] = outcome]
    /\ result' = [result EXCEPT ![i] = IF outcome.raised = "" THEN outcome.val ELSE <<>>]
    /\ pc' = [pc EXCEPT ![i] = IF outcome.raised = "" THEN "done" ELSE "failed"]

\* as ResumeOf, with the loop run over the documents of the store at that moment
ResumeOf_ReadsStore(i) ==
    /\ pc[i] = "listed"
    /\ Resumed(i, AccessibleDocs(get_docs_by_status(store, "PROCESSED"), req[i]))
    /\ UNCHANGED <<op, arg, store, req>>

\* call i is resumed with its listing and runs to its end
ResumeOf(i) ==
    /\ pc[i] = "listed"
    /\ Resumed(i, AccessibleDocs(arg[i], req[i]))
    /\ UNCHANGED <<op, arg, store, req>>

\* the listing of call i fails
ListingFailsOf(i) ==
    /\ pc[i] = "listing"
    /\ ret' = [ret EXCEPT ![i] = Raise("StorageError")]
    /\ pc' = [pc EXCEPT ![i] = "failed"]
    /\ UNCHANGED <<op, arg, store, req, result>>

\* ingestion adds documents to the store or removes some
Ingest ==
    /\ \E docs \in ConcurrentStores \ {store} : store' = docs
    /\ UNCHANGED <<op, arg, ret, pc, req, result>>

NextConcurrent ==
    \/ \E i \in Calls : CallOf(i) \/ ListingOf(i) \/ ResumeOf(i) \/ ListingFailsOf(i)
    \/ Ingest

SpecConcurrent == InitConcurrent /\ [][NextConcurrent]_vars

(***************************************************************************)
(* Identities: CurrentUser built from its arguments, and from the bearer   *)
(* token of a request by get_current_user_optional.                        *)
(***************************************************************************)
\* the roles value of a token's metadata, or of the roles argument
RolesValues ==
    { Absent, StrV(s_admin), StrV(<<>>), ListV(<<>>),
      ListV(<<StrV(s_admin), StrV(s_staff)>>), ListV(<<StrV(s_staff), StrV(s_admin)>>),
      ListV(<<StrV(s_user), StrV(s_user)>>), ListV(<<StrV(<<>>), StrV(s_staff)>>) }

TokenMetadata ==
    { Absent } \cup
    { DictOf(<< <<k_user_id, user_id>>, <<k_roles, roles>> >>) :
        user_id \in {Absent, StrV(<<"u","1">>)}, roles \in RolesValues }

\* no token, a token that is not valid, and the valid tokens
Tokens ==
    { None, [t |-> "token", valid |-> FALSE, info |-> None] } \cup
    { [t |-> "token", valid |-> TRUE,
       info |-> DictOf(<< <<k_username, username>>, <<k_role, role>>, <<k_metadata, metadata>> >>)] :
        username \in {Absent, StrV(s_bob)},
        role \in {Absent, StrV(s_user), StrV(s_admin), StrV(<<>>)},
        metadata \in TokenMetadata }

\* the arguments of the constructor; the first is the call without arguments
ConstructorArgs ==
    [ role : {s_guest, s_user, <<>>},
      roles : {None} \cup {v \in RolesValues : v.t = "list"},
      metadata : {None, DictV(<< <<k_roles, StrV(s_staff)>> >>),
                  DictV(<< <<k_roles, ListV(<<StrV(s_user), StrV(s_admin)>>)>> >>)} ]

InitIdentity ==
    /\ \/ op = "get_current_user_optional" /\ arg \in Tokens
       \/ op = "CurrentUser" /\ arg \in ConstructorArgs
    /\ ret = None
    /\ store = <<>>
    /\ pc = "idle"
    /\ req = None
    /\ result = <<>>

GetCurrentUserOptional ==
    /\ op = "get_current_user_optional"
    /\ ~Returned
    /\ ret' = Return(get_current_user_optional(arg))
    /\ UNCHANGED <<op, arg, store, pc, req, result>>

\* CurrentUser(role=..., roles=..., metadata=...), unauthenticated and without a name
Construct ==
    /\ op = "CurrentUser"
    /\ ~Returned
    /\ ret' = Return(CurrentUser(None, None, arg.role, arg.metadata, FALSE, arg.roles))
    /\ UNCHANGED <<op, arg, store, pc, req, result>>

NextIdentity == GetCurrentUserOptional \/ Construct

SpecIdentity == InitIdentity /\ [][NextIdentity]_vars

(***************************************************************************)
(* The filters applied to retrieved chunks, entities and graph nodes, for  *)
(* accessible sets whose documents have a path, an empty path or none.     *)
(***************************************************************************)
s_docs_a == <<"d","o","c","s","/","a",".","p","d","f">>
s_docs_b == <<"d","o","c","s","/","b",".","p","d","f">>
s_docs_c == <<"d","o","c","s","/","c",".","p","d","f">>
s_sep_ab == s_docs_a \o GRAPH_FIELD_SEP \o s_docs_b

MaxAccessible == 2
MaxRecords == 2

\* a processed document known by its file_path only
PathDoc(file_path) ==
    DocRecord("PROCESSED", file_path, Absent, Absent, Absent, <<Absent, Absent, Absent>>, Absent, Absent, Absent, Absent)

DocPaths == { None, StrV(<<>>), StrV(s_docs_a), StrV(s_docs_b) }

\* the accessible_files mappings of up to MaxAccessible documents
AccessibleSets ==
    UNION {{[i \in 1..n |-> PathDoc(ps[i])] : ps \in Tuples(DocPaths, n)} : n \in 0..MaxAccessible}

ListsOf(S) == UNION {Tuples(S, n) : n \in 0..MaxRecords}

k_content == <<"c","o","n","t","e","n","t">>

ChunkPaths ==
    { Absent, None, StrV(<<>>), StrV(s_docs_a), StrV(<<"/","d","a","t","a","/">> \o s_docs_a),
      StrV(s_docs_b), StrV(<<"d","o","c","s","/","a",".","p","d">>) }

Chunks == { DictOf(<< <<k_content, StrV(<<"t">>)>>, <<k_file_path, p>> >>) : p \in ChunkPaths }

EntityPaths ==
    { Absent, StrV(<<>>), StrV(s_docs_a), StrV(s_sep_ab),
      StrV(s_docs_c \o GRAPH_FIELD_SEP \o <<"x","/">> \o s_docs_b), StrV(s_docs_c) }

Entities == { DictOf(<< <<k_file_path, p>> >>) : p \in EntityPaths }

\* property bags of graph nodes: none, not a mapping, without provenance
\* keys, and with provenance values of each shape
NodeProperties ==
    { Absent, None, StrV(<<"x">>), DictV(<<>>),
      DictV(<< <<k_file_path, StrV(s_docs_a)>> >>),
      DictV(<< <<k_file_path, StrV(<<>>)>> >>),
      DictV(<< <<k_file_path, StrV(s_docs_c)>> >>),
      DictV(<< <<ProvenanceKeys[2], ListV(<<StrV(s_docs_b), StrV(s_docs_c)>>)>> >>),
      DictV(<< <<ProvenanceKeys[2], ListV(<<IntV(7), StrV(s_docs_a)>>)>> >>),
      DictV(<< <<ProvenanceKeys[3], ListV(<<>>)>> >>),
      DictV(<< <<ProvenanceKeys[3], IntV(7)>> >>),
      DictV(<< <<ProvenanceKeys[4], ListV(<<IntV(7)>>)>> >>),
      DictV(<< <<k_file_path, StrV(s_docs_c)>>,
               <<ProvenanceKeys[4], ListV(<<StrV(<<"x","/">> \o s_docs_b)>>)>> >>) }

NodeIds == <<"n1", "n2", "n3">>

GraphNode(i, props) ==
    DictOf(<< <<<<"i","d">>, StrV(<<NodeIds[i]>>)>>, <<k_properties, props>> >>)

GraphEdge(i, j) ==
    DictV(<< <<<<"s","o","u","r","c","e">>, StrV(<<NodeIds[i]>>)>>,
             <<<<"t","a","r","g","e","t">>, StrV(<<NodeIds[j]>>)>> >>)

\* graphs of up to MaxRecords nodes, with an edge between every two nodes
\* and an edge to a node that the graph does not hold
Graphs ==
    UNION {{[nodes |-> [i \in 1..n |-> GraphNode(i, ps[i])],
             edges |-> IF n < 2 THEN <<GraphEdge(1, 1), GraphEdge(1, 2)>>
                       ELSE <<GraphEdge(1, 1), GraphEdge(1, 2), GraphEdge(2, 1), GraphEdge(2, 3)>>] :
                ps \in Tuples(NodeProperties, n)} : n \in 1..MaxRecords}

InitPropagate ==
    /\ \/ op = "filter_chunks_by_access" /\ arg \in ListsOf(Chunks)
       \/ op = "filter_entities_by_access" /\ arg \in ListsOf(Entities)
       \/ op = "get_knowledge_graph" /\ arg \in Graphs
    /\ ret = None
    /\ store \in AccessibleSets
    /\ pc = "idle"
    /\ req = None
    /\ result = <<>>

FilterChunks ==
    /\ op = "filter_chunks_by_access"
    /\ ~Returned
    /\ ret' = Return(filter_chunks_by_access(arg, store))
    /\ UNCHANGED <<op, arg, store, pc, req, result>>

FilterEntities ==
    /\ op = "filter_entities_by_access"
    /\ ~Returned
    /\ ret' = Return(filter_entities_by_access(arg, store))
    /\ UNCHANGED <<op, arg, store, pc, req, result>>

FilterGraph ==
    /\ op = "get_knowledge_graph"
    /\ ~Returned
    /\ ret' = Return(filter_graph(arg, store))
    /\ UNCHANGED <<op, arg, store, pc, req, result>>

NextPropagate == FilterChunks \/ FilterEntities \/ FilterGraph

SpecPropagate == InitPropagate /\ [][NextPropagate]_vars

(***************************************************************************)
(* Requests to the routes, on stores of documents of bob and of alice. The *)
(* engine answers with the chunks, entities and relations of every         *)
(* document of the store (it does not scope its search by param.ids).      *)
(***************************************************************************)
s_old_a_pdf == <<"o","l","d","/">> \o s_a_pdf

RouteDocs ==
    << DocRecord("PROCESSED", StrV(s_a_pdf), StrV(s_bob), Absent, Absent,
                 <<Absent, Absent, Absent>>, Absent, Absent, Absent, Absent),
       DocRecord("PROCESSED", StrV(s_b_pdf), StrV(s_alice), Absent, Absent,
                 <<Absent, Absent, Absent>>, Absent, BoolV(TRUE), Absent, Absent),
       DocRecord("PROCESSED", StrV(s_old_a_pdf), StrV(s_alice), Absent, Absent,
                 <<Absent, Absent, Absent>>, Absent, Absent, Absent, Absent),
       DocRecord("PROCESSED", StrV(s_b_pdf), StrV(s_alice), Absent, Absent,
                 <<Absent, IntV(7), Absent>>, Absent, Absent, Absent, Absent) >>

\* the stores: the first documents of RouteDocs, and the third alone
RouteStores ==
    {StoreOf(SubSeq(RouteDocs, 1, n)) : n \in 0..Len(RouteDocs)}
    \cup {[id \in {DocIds[3]} |-> RouteDocs[3]]}

FilterPayloads ==
    { None,
      [t |-> "payload", project_id |-> None, owner |-> None, tags |-> None,
       filename |-> StrV(<<"a",".">>)],
      [t |-> "payload", project_id |-> None, owner |-> StrV(s_alice), tags |-> None,
       filename |-> None] }

RequestedIds ==
    { None, ListV(<<>>), ListV(<<DocIds[2], DocIds[1]>>),
      ListV(<<DocIds[3], DocIds[1], DocIds[3]>>), ListV(<<DocIds[4]>>) }

RouteRequests ==
    [ current_user : {Guest, CurrentUser(StrV(s_bob), None, s_user, None, TRUE, None)},
      access_filters : FilterPayloads,
      ids : RequestedIds ]

ChunkOf(doc) == DictOf(<< <<k_content, StrV(<<"t">>)>>, <<k_file_path, doc.file_path>> >>)

\* the answer of aquery_data on a store: a chunk and a relation for each
\* document, and an entity of the first two documents
DataOf(docs) ==
    [t |-> "dict",
     chunks |-> [i \in DOMAIN KeysOf(docs, DocIds) |-> ChunkOf(docs[KeysOf(docs, DocIds)[i]])],
     relationships |-> [i \in DOMAIN KeysOf(docs, DocIds) |-> ChunkOf(docs[KeysOf(docs, DocIds)[i]])],
     entities |-> IF Cardinality(DOMAIN docs) < 2 THEN <<>>
                  ELSE <<DictOf(<< <<k_file_path, StrV(docs[DocIds[2]].file_path.s \o GRAPH_FIELD_SEP \o docs[DocIds[1]].file_path.s)>> >>)>>]

\* the answer of get_knowledge_graph on a store: a node for each document,
\* a node without properties, and edges between them
GraphOf(docs) ==
    [nodes |-> [i \in 1..(Cardinality(DOMAIN docs) + 1) |->
                    IF i > Cardinality(DOMAIN docs) THEN GraphNode(3, Absent)
                    ELSE GraphNode(IF i > 2 THEN 2 ELSE i, DictV(<< <<k_file_path, docs[KeysOf(docs, DocIds)[i]].file_path>> >>))],
     edges |-> <<GraphEdge(1, 2), GraphEdge(1, 3), GraphEdge(3, 3)>>]

\* what the engine may answer to the call of a route
EngineAnswers(route, docs) ==
    IF route = "query_data" THEN {DataOf(docs), None}
    ELSE IF route = "get_knowledge_graph" THEN {GraphOf(docs)}
    ELSE {"answer"}

InitRoutes ==
    /\ op \in {"query_text", "query_text_stream", "query_data", "get_knowledge_graph"}
    /\ arg = None
    /\ ret = None
    /\ store \in RouteStores
    /\ pc = "idle"
    /\ req = None
    /\ result = <<>>

\* the request arrives and the handler calls the resolver
RouteCall ==
    /\ pc = "idle"
    /\ \E r \in RouteRequests :
          /\ op = "get_knowledge_graph" => r.ids = None
          /\ req' = r
    /\ pc' = "resolving"
    /\ UNCHANGED <<op, arg, ret, store, result>>

\* the handler from the answer of the resolver on: step says how it goes on
Resolved(step) ==
    /\ pc' = step.next
    /\ ret' = step.ret
    /\ result' = step.docs
    /\ arg' = step.call

\* the resolver answers and the handler runs up to the call of the engine
ResolverReturns ==
    /\ pc = "resolving"
    /\ Resolved(AfterResolver(op, req, RouteFilters(op, req.access_filters),
                               AccessibleDocs(get_docs_by_status(store, "PROCESSED"),
                                              ResolverRequest(req.current_user, RouteFilters(op, req.access_filters))),
                               DocIds))
    /\ UNCHANGED <<op, store, req>>

\* the engine answers and the handler builds its response
EngineReturns ==
    /\ pc = "engine"
    /\ \E response \in EngineAnswers(op, store) :
          ret' = AfterEngine(op, response, result, RouteFilters(op, req.access_filters))
    /\ pc' = "done"
    /\ UNCHANGED <<op, arg, store, req, result>>

\* the engine fails
EngineFails ==
    /\ pc = "engine"
    /\ ret' = RouteFails(op, Raise("EngineError"))
    /\ pc' = "done"
    /\ UNCHANGED <<op, arg, store, req, result>>

NextRoutes == RouteCall \/ ResolverReturns \/ EngineReturns \/ EngineFails

SpecRoutes == InitRoutes /\ [][NextRoutes]_vars

(***************************************************************************)
(* Claims on the strict parser and the normalizers                         *)
(***************************************************************************)
\* the shape target_kind:permission:identifier of the canonical encoding:
\* exactly three colon-separated fields, blanks around a field aside
CanonicalFields(text) == StrSplit(text, ":")

IsCanonical(text) ==
    LET f == CanonicalFields(text)
    IN  /\ Len(f) = 3
        /\ StrLower(StrStrip(f[1])) \in {s_user, s_role}
        /\ StrLower(StrStrip(f[2])) \in {s_view, s_edit}
        /\ StrStrip(f[3]) # <<>>

CanonicalEntry(text) ==
    LET f == CanonicalFields(text)
    IN  ShareEntry(StrLower(StrStrip(f[1])),
                   IF StrLower(StrStrip(f[2])) = s_edit THEN EDIT ELSE VIEW,
                   StrStrip(f[3]))

\* C8: parse_share_entry raises a validation error for every text that is not
\* of the shape target_kind:permission:identifier with kind user or role,
\* permission view or edit and a non-empty identifier, and returns the
\* ShareEntry (kind and permission lower-cased, identifier as written) for
\* every text that is.
C8_StrictParser ==
    (op = "parse_share_entry" /\ Returned) =>
        ret = IF IsCanonical(arg) THEN Return(CanonicalEntry(arg))
              ELSE Raise("ValueError")

\* C9: normalize_share_items, given a list, returns without error and keeps
\* no item that fails validation: every entry of the result has target kind
\* user or role and a non-empty identifier.
C9_DropsInvalidItems ==
    (op = "normalize_share_items" /\ Returned /\ arg.t = "list") =>
        /\ ret.raised = ""
        /\ \A i \in DOMAIN ret.val :
              /\ ret.val[i].target_type \in {s_user, s_role}
              /\ ret.val[i].permission \in {VIEW, EDIT}
              /\ ret.val[i].identifier # <<>>

\* C10: normalize_tag_items and normalize_share_items are total: for every raw
\* input that is absent, a text, a mapping, a list or a scalar, the call
\* returns a list and raises nothing.
C10_NormalizersTotal ==
    (/\ op \in {"normalize_tag_items", "normalize_share_items"}
     /\ Returned
     /\ arg.t \in {"none", "str", "dict", "list", "int", "bool"}) =>
        ret.raised = ""

\* the elements of seq, each at its first occurrence only
FirstOccurrences(seq) ==
    PickInOrder(seq, {i \in DOMAIN seq : \A j \in 1..(i - 1) : seq[j] # seq[i]})

NoRepeats(seq) == \A i, j \in DOMAIN seq : i # j => seq[i] # seq[j]

\* what each item of raw_iterable contributes: <<>> or one element
ItemImages(items) ==
    [i \in DOMAIN items |->
        IF op = "normalize_tag_items" THEN coerce_entry(items[i]) ELSE share_item(items[i])]

\* the elements contributed by the items, in the order of the items
KeptImages(items) ==
    LET img == ItemImages(items)
        kept == PickInOrder(img, {i \in DOMAIN img : img[i] # <<>>})
    IN  [k \in DOMAIN kept |-> kept[k][1]]

\* C11: the list normalize_tag_items returns has no two tags of the same
\* (name, value) and the list normalize_share_items returns no two entries of
\* the same (target kind, permission, identifier); the elements kept are in
\* the order of their first occurrence in the input.
C11_DedupFirstSeen ==
    (op \in {"normalize_tag_items", "normalize_share_items"}
     /\ Returned /\ ret.raised = "") =>
        /\ NoRepeats(ret.val)
        /\ arg.t = "list" => ret.val = FirstOccurrences(KeptImages(arg.items))

\* a list whose third item repeats the first in another surface form
C11_Witness ==
    /\ op = "normalize_tag_items" /\ Returned /\ ret.raised = ""
    /\ arg.t = "list" /\ Len(arg.items) = 3
    /\ arg.items[1] # arg.items[3]
    /\ Len(ret.val) = 2
    /\ coerce_entry(arg.items[1]) = <<ret.val[1]>>
    /\ coerce_entry(arg.items[3]) = <<ret.val[1]>>
    /\ coerce_entry(arg.items[2]) = <<ret.val[2]>>

\* C12: normalize_tag_items is idempotent: normalizing the list it returned
\* returns that list.
C12_TagsIdempotent ==
    (op = "normalize_tag_items" /\ pc = "again") => result = ret

\* a text with blanks around names and values, normalized twice
C12_Witness ==
    /\ op = "normalize_tag_items" /\ pc = "again"
    /\ arg.t = "str" /\ StrContains(<<" ",":"," ">>, arg.s)
    /\ Len(ret.val) = 2
    /\ result = ret

(***************************************************************************)
(* Claims on the accessible-document resolver. Each is read in a state     *)
(* where a call has returned: store holds the documents, req the call's    *)
(* arguments and result the mapping it returned.                           *)
(***************************************************************************)
Done == pc = "done"

Caller == req.current_user

Included(id) == id \in DOMAIN result

Processed(id) == store[id].status = "PROCESSED"

Meta(id, key) == DictGet(DocMetadata(store[id]), key, None)

HasText(x) == x.t = "str" /\ x.s # <<>>

\* the owner of a document: metadata owner, else the legacy user_id
ResolvedOwner(id) == IF HasText(Meta(id, k_owner)) THEN Meta(id, k_owner) ELSE Meta(id, k_user_id)

OwnerOrUploader(id) ==
    /\ HasText(Caller.user_id)
    /\ \/ PyEq(ResolvedOwner(id), Caller.user_id)
       \/ PyEq(Meta(id, k_uploaded_by), Caller.user_id)

ShareEntriesOf(id) == metadata_share_entries(DocMetadata(store[id])).val

\* the share entries of a document that match the caller
MatchingEntries(id) ==
    {e \in {ShareEntriesOf(id)[i] : i \in DOMAIN ShareEntriesOf(id)} :
        matches_user(e, Caller.user_id, Caller.roles)}

\* a matching share entry with sufficient permission: the required one, or edit
SharedWithCaller(id) ==
    \E e \in MatchingEntries(id) :
        e.permission = req.required_permission \/ e.permission = EDIT

AllowedRolesOf(id) ==
    LET roles == Meta(id, k_allowed_roles)
    IN  IF roles.t = "list" THEN {roles.items[i].s : i \in DOMAIN roles.items} ELSE {}

RoleListed(id) == AllowedRolesOf(id) \cap Caller.roles # {}

MarkedPublic(id) == PyEq(Meta(id, k_is_public), BoolV(TRUE))

FiltersInForce == EffectiveFilters(req)

TagsOf(id) ==
    LET tags == metadata_tags(DocMetadata(store[id])).val
    IN  {tags[i] : i \in DOMAIN tags}

FailsProject(id) ==
    HasText(FiltersInForce.project_id)
    /\ ~PyEq(Meta(id, k_project_id), FiltersInForce.project_id)

FailsOwner(id) ==
    HasText(FiltersInForce.owner) /\ ~PyEq(ResolvedOwner(id), FiltersInForce.owner)

FailsTags(id) ==
    \E i \in DOMAIN FiltersInForce.tags : FiltersInForce.tags[i] \notin TagsOf(id)

FailsFilename(id) ==
    HasText(FiltersInForce.filename)
    /\ ~(HasText(store[id].file_path)
         /\ StrContains(FiltersInForce.filename.s, store[id].file_path.s))

PassesGate(id) ==
    ~FailsProject(id) /\ ~FailsOwner(id) /\ ~FailsTags(id) /\ ~FailsFilename(id)

\* C1: for an authenticated caller a PROCESSED document is returned iff it
\* passes the filter gate and at least one of the four grant checks holds,
\* the checks being a disjunction (their order does not matter).
C1_GateAndAnyGrant ==
    (Done /\ Caller.is_authenticated) =>
        \A id \in DOMAIN store :
            Included(id) <=>
                /\ Processed(id)
                /\ PassesGate(id)
                /\ \/ MarkedPublic(id) /\ req.include_public /\ req.required_permission = VIEW
                   \/ RoleListed(id) /\ req.required_permission = VIEW
                   \/ req.include_shared /\ SharedWithCaller(id)
                   \/ OwnerOrUploader(id)

\* a document with share entries, none of them for the caller, returned on
\* the role list or the public flag alone
C1_Witness ==
    /\ Done /\ Caller.is_authenticated
    /\ \E id \in DOMAIN store :
          /\ Included(id) /\ ~OwnerOrUploader(id)
          /\ req.include_shared /\ ShareEntriesOf(id) # <<>> /\ ~SharedWithCaller(id)
          /\ RoleListed(id) /\ ~MarkedPublic(id)

\* C2: an unauthenticated caller is never returned a document whose metadata
\* does not have is_public set to true.
C2_UnauthenticatedNeedsPublic ==
    (Done /\ ~Caller.is_authenticated) =>
        \A id \in DOMAIN store : ~MarkedPublic(id) => ~Included(id)

\* an unauthenticated call with include_public on, on a passing non-public
\* document that has share entries and lists the caller's role, returns
\* without it
C2_Witness ==
    /\ Done /\ ~Caller.is_authenticated /\ req.include_public
    /\ \E id \in DOMAIN store :
          /\ Processed(id) /\ PassesGate(id) /\ ~MarkedPublic(id)
          /\ ShareEntriesOf(id) # <<>> /\ RoleListed(id)
          /\ ~Included(id)

\* C3: for every caller, authenticated or not, a document that is public and
\* has no other grant is returned only when the required permission is view.
C3_PublicIsViewOnly ==
    Done =>
        \A id \in DOMAIN store :
            (/\ MarkedPublic(id) /\ ~OwnerOrUploader(id)
             /\ MatchingEntries(id) = {} /\ ~RoleListed(id)
             /\ Included(id)) => req.required_permission = VIEW

\* C4: the owner (metadata owner, else the legacy user_id) and the uploader
\* of a document that passes the filter gate get it for view and for edit,
\* whatever its share entries, allowed_roles, is_public and the include flags.
C4_OwnershipSupremacy ==
    Done =>
        \A id \in DOMAIN store :
            (Processed(id) /\ PassesGate(id) /\ OwnerOrUploader(id)) => Included(id)

\* the legacy owner asks for edit with both include flags off and gets the
\* document, which nothing else would grant
C4_Witness ==
    /\ Done /\ Caller.is_authenticated
    /\ req.required_permission = EDIT /\ ~req.include_shared /\ ~req.include_public
    /\ \E id \in DOMAIN store :
          /\ Included(id)
          /\ Meta(id, k_owner).t = "none" /\ PyEq(Meta(id, k_user_id), Caller.user_id)
          /\ Meta(id, k_uploaded_by).t = "none"

\* C5: an authenticated caller who is not owner or uploader of a non-public
\* document without allowed_roles gets the (PROCESSED, gate-passing) document
\* iff include_shared is on and a share entry matches the caller and allows
\* the required permission.
C5_ShareGrant ==
    (Done /\ Caller.is_authenticated) =>
        \A id \in DOMAIN store :
            (/\ Processed(id) /\ PassesGate(id)
             /\ ~OwnerOrUploader(id) /\ ~MarkedPublic(id) /\ AllowedRolesOf(id) = {}) =>
                (Included(id) <=> (req.include_shared /\ SharedWithCaller(id)))

\* Scenario B asked for edit: only view entries match the caller, and the
\* document is left out
C5_Witness ==
    /\ Done /\ Caller.is_authenticated
    /\ req.required_permission = EDIT /\ req.include_shared
    /\ \E id \in DOMAIN store :
          /\ Processed(id) /\ PassesGate(id)
          /\ ~OwnerOrUploader(id) /\ ~MarkedPublic(id) /\ AllowedRolesOf(id) = {}
          /\ MatchingEntries(id) # {}
          /\ \A e \in MatchingEntries(id) : e.permission = VIEW
          /\ ~Included(id)

\* C6: an authenticated caller whose only grant on a (PROCESSED, gate-passing)
\* document is a role of its allowed_roles gets it for view and never for edit.
C6_RoleListIsViewOnly ==
    (Done /\ Caller.is_authenticated) =>
        \A id \in DOMAIN store :
            (/\ Processed(id) /\ PassesGate(id) /\ RoleListed(id)
             /\ ~OwnerOrUploader(id) /\ MatchingEntries(id) = {} /\ ~MarkedPublic(id)) =>
                (Included(id) <=> req.required_permission = VIEW)

\* a role of the list asks for edit and is refused
C6_Witness ==
    /\ Done /\ Caller.is_authenticated /\ req.required_permission = EDIT
    /\ \E id \in DOMAIN store :
          /\ Processed(id) /\ PassesGate(id) /\ RoleListed(id)
          /\ ~OwnerOrUploader(id) /\ MatchingEntries(id) = {} /\ ~MarkedPublic(id)
          /\ ~Included(id)

\* C7: a document that fails one of the caller's filters (project_id, owner,
\* any one of the required tags, filename) is never returned, whatever the
\* caller's grants.
C7_FilterGate ==
    Done =>
        \A id \in DOMAIN store :
            (FailsProject(id) \/ FailsOwner(id) \/ FailsTags(id) \/ FailsFilename(id))
                => ~Included(id)

\* the owner of a document that carries one of two required tags is refused
C7_Witness ==
    /\ Done /\ Caller.is_authenticated
    /\ \E id \in DOMAIN store :
          /\ Processed(id) /\ OwnerOrUploader(id)
          /\ FailsTags(id) /\ \E i \in DOMAIN FiltersInForce.tags :
                                  FiltersInForce.tags[i] \in TagsOf(id)
          /\ ~FailsProject(id) /\ ~FailsOwner(id) /\ ~FailsFilename(id)
          /\ ~Included(id)

\* the normalized entries of one of the keys share_parsed, share
EntriesOfKey(id, key) ==
    IF Truthy(Meta(id, key)) THEN normalize_share_items(Meta(id, key)).val ELSE <<>>

\* the elements of a list of the legacy mapping, as user entries
LegacyList(id, key, permission) ==
    LET mapping == Meta(id, k_access_control)
        list == DictGet(mapping, key, ListV(<<>>))
    IN  [i \in DOMAIN list.items |-> ShareEntry(s_user, permission, list.items[i].s)]

\* the legacy mapping: owner as edit, viewers as view, editors as edit
LegacyMapping(id) ==
    LET mapping == Meta(id, k_access_control)
        owner == DictGet(mapping, k_owner, None)
    IN  IF mapping.t # "dict" THEN <<>>
        ELSE (IF HasText(owner) THEN <<ShareEntry(s_user, EDIT, owner.s)>> ELSE <<>>)
             \o LegacyList(id, k_viewers, VIEW) \o LegacyList(id, k_editors, EDIT)

\* the metadata is the legacy shape {access_control: {owner: alice, viewers: [bob]}}
ScenarioC(id) ==
    /\ Meta(id, k_share_parsed).t = "none" /\ Meta(id, k_share).t = "none"
    /\ PyEq(Meta(id, k_access_control),
            DictV(<< <<k_owner, StrV(s_alice)>>, <<k_viewers, ListV(<<StrV(s_bob)>>)>> >>))

\* C13: metadata_share_entries returns the normalized entries of share_parsed,
\* then of share, then the legacy access_control mapping (owner as a user edit
\* entry, each viewer as a user view entry, each editor as a user edit entry),
\* each entry at its first occurrence only; for {access_control: {owner: alice,
\* viewers: [bob]}} that is [user:edit:alice, user:view:bob], and bob asking
\* for view gets the document.
C13_MergedShareEntries ==
    (Done /\ Caller.is_authenticated) =>
        \A id \in DOMAIN store :
            /\ ShareEntriesOf(id) =
                  FirstOccurrences(EntriesOfKey(id, k_share_parsed)
                                   \o EntriesOfKey(id, k_share) \o LegacyMapping(id))
            /\ ScenarioC(id) =>
                  /\ ShareEntriesOf(id) = <<ShareEntry(s_user, EDIT, s_alice),
                                            ShareEntry(s_user, VIEW, s_bob)>>
                  /\ (/\ PyEq(Caller.user_id, StrV(s_bob))
                      /\ req.required_permission = VIEW /\ req.include_shared
                      /\ Processed(id) /\ PassesGate(id)) => Included(id)

\* the three sources together, with a viewer and an editor that repeat
\* earlier entries; bob gets the document for view on its share entries alone
C13_Witness ==
    /\ Done /\ PyEq(Caller.user_id, StrV(s_bob))
    /\ req.required_permission = VIEW /\ req.include_shared /\ ~req.include_public
    /\ \E id \in DOMAIN store :
          /\ EntriesOfKey(id, k_share_parsed) # <<>>
          /\ Len(EntriesOfKey(id, k_share)) = 2
          /\ Len(LegacyMapping(id)) = 4
          /\ Len(ShareEntriesOf(id)) = 4
          /\ ~OwnerOrUploader(id) /\ ~RoleListed(id)
          /\ Included(id)

\* C14: every ShareEntry that metadata_share_entries returns, from the new
\* share keys and from the legacy access_control mapping alike, has target
\* kind user or role and a non-empty identifier.
C14_EntriesWellFormed ==
    (Done /\ Caller.is_authenticated) =>
        \A id \in DOMAIN store : \A i \in DOMAIN ShareEntriesOf(id) :
            /\ ShareEntriesOf(id)[i].target_type \in {s_user, s_role}
            /\ ShareEntriesOf(id)[i].identifier # <<>>

(***************************************************************************)
(* Claims on ShareEntry                                                    *)
(***************************************************************************)
\* C15: allows(required) is true iff the entry's permission is required or is
\* edit: an edit entry allows view and edit, a view entry allows view only.
C15_EditImpliesView ==
    (op = "allows" /\ Returned) =>
        (ret.val <=> (arg.entry.permission = arg.required \/ arg.entry.permission = EDIT))

\* an edit entry asked for view
C15_Witness ==
    /\ op = "allows" /\ Returned
    /\ arg.entry.permission = EDIT /\ arg.required = VIEW
    /\ ret.val = TRUE

\* "*" or "all" in any letter case
IsWildcard(identifier) ==
    \/ identifier = <<"*">>
    \/ /\ Len(identifier) = 3
       /\ identifier[1] \in {"a", "A"}
       /\ identifier[2] \in {"l", "L"}
       /\ identifier[3] \in {"l", "L"}

\* C16: a user entry whose identifier is "*" or "all" in any letter case
\* matches every caller with a non-empty user_id, and such a role entry
\* matches every caller with a non-empty role set.
C16_Wildcards ==
    (op = "matches_user" /\ Returned /\ IsWildcard(arg.entry.identifier)) =>
        /\ (arg.entry.target_type = s_user /\ HasText(arg.user_id)) => ret.val
        /\ (arg.entry.target_type = s_role /\ arg.user_roles # {}) => ret.val

\* the user wildcard in mixed case, for a caller of another name
C16_Witness ==
    /\ op = "matches_user" /\ Returned
    /\ arg.entry.target_type = s_user /\ arg.entry.identifier = <<"a","L","l">>
    /\ arg.user_id = StrV(s_alice) /\ arg.user_roles = {}
    /\ ret.val = TRUE

\* the role half of the matching rule
RoleEntryMatches ==
    /\ arg.entry.target_type = s_role
    /\ IsWildcard(arg.entry.identifier) \/ arg.entry.identifier \in arg.user_roles

\* the user half of the matching rule
UserEntryMatches ==
    /\ arg.entry.target_type = s_user
    /\ IsWildcard(arg.entry.identifier) \/ PyEq(StrV(arg.entry.identifier), arg.user_id)

\* C17, as stated: matches_user is true exactly when the entry is user-kind
\* and its identifier is the wildcard or equals user_id, or is role-kind and
\* its identifier is the wildcard or one of the roles; for every caller, one
\* with an absent or empty user_id included.
C17_MatchingRuleEveryCaller ==
    (op = "matches_user" /\ Returned) =>
        (ret.val <=> (UserEntryMatches \/ RoleEntryMatches))

\* C17, amended: the same rule, with a user-kind entry (wildcard included)
\* matching only a caller that has a non-empty user_id.
C17_MatchingRule ==
    (op = "matches_user" /\ Returned) =>
        (ret.val <=> ((HasText(arg.user_id) /\ UserEntryMatches) \/ RoleEntryMatches))

\* the user wildcard does not match a caller without user_id
C17_Witness ==
    /\ op = "matches_user" /\ Returned
    /\ arg.entry.target_type = s_user /\ arg.entry.identifier = s_star
    /\ arg.user_id = None
    /\ ret.val = FALSE

(***************************************************************************)
(* Claims on the filters of chunks, entities and graph nodes               *)
(***************************************************************************)
\* the text of a record's file_path, when it has one
HasPath(record) == DictGet(record, k_file_path, None).t = "str"
PathOf(record) == DictGet(record, k_file_path, None).s

\* the file paths of the documents of the accessible set, the empty one included
PathsOfAccessible == {store[id].file_path.s : id \in {i \in DOMAIN store : store[i].file_path.t = "str"}}

\* the file paths of the accessible set that are not empty
NonEmptyPathsOfAccessible == PathsOfAccessible \ {<<>>}

ChunkContainsOneOf(chunk, paths) ==
    HasPath(chunk) /\ \E p \in paths : StrContains(p, PathOf(chunk))

ChunksDone == op = "filter_chunks_by_access" /\ Returned

\* C18 as stated: filter_chunks_by_access keeps a chunk iff its file_path
\* contains the file_path of at least one document of the accessible set, and
\* the result is a sub-list of the input in the input's order.
C18_ChunksOfAnyPath ==
    ChunksDone =>
        /\ ret.raised = ""
        /\ ret.val = PickInOrder(arg, {i \in DOMAIN arg : ChunkContainsOneOf(arg[i], PathsOfAccessible)})

\* C18, amended: filter_chunks_by_access keeps a chunk iff its file_path
\* contains the non-empty file_path of at least one document of the
\* accessible set; the result is a sub-list of the input in the input's order.
C18_ChunksOfNonEmptyPaths ==
    ChunksDone =>
        /\ ret.raised = ""
        /\ ret.val = PickInOrder(arg, {i \in DOMAIN arg : ChunkContainsOneOf(arg[i], NonEmptyPathsOfAccessible)})

\* a chunk dropped and a later chunk kept for a path that its own path
\* contains without being equal to it
C18_Witness ==
    /\ ChunksDone
    /\ Len(arg) = 2
    /\ ret.val = <<arg[2]>>
    /\ arg[1] # arg[2]
    /\ PathOf(arg[2]) \notin PathsOfAccessible
    /\ NonEmptyPathsOfAccessible # {}

\* the segments of an entity's file_path, which is empty when it has none
Segments(entity) ==
    LET parts == StrSplitOn(IF HasPath(entity) THEN PathOf(entity) ELSE <<>>, GRAPH_FIELD_SEP)
    IN  {parts[i] : i \in DOMAIN parts}

SegmentContainsOneOf(entity, paths) ==
    \E segment \in Segments(entity) : \E p \in paths : StrContains(p, segment)

EntitiesDone == op = "filter_entities_by_access" /\ Returned

\* the entity of Scenario D, with only docs/b.pdf accessible
ScenarioD(i) ==
    /\ i \in DOMAIN arg
    /\ HasPath(arg[i])
    /\ PathOf(arg[i]) = s_sep_ab
    /\ store = <<PathDoc(StrV(s_docs_b))>>

\* C19 as stated: filter_entities_by_access keeps an entity iff a segment of
\* its file_path, split on the separator, contains the file_path of at least
\* one accessible document, each kept entity once and in input order.
C19_EntitiesOfAnyPath ==
    EntitiesDone =>
        /\ ret.raised = ""
        /\ ret.val = PickInOrder(arg, {i \in DOMAIN arg : SegmentContainsOneOf(arg[i], PathsOfAccessible)})

\* C19, amended: filter_entities_by_access splits an entity's file_path on
\* the separator and keeps the entity iff a segment contains the non-empty
\* file_path of at least one accessible document; each kept entity appears
\* once and in input order, and the entity of Scenario D is kept.
C19_EntitiesOfNonEmptyPaths ==
    EntitiesDone =>
        /\ ret.raised = ""
        /\ ret.val = PickInOrder(arg, {i \in DOMAIN arg : SegmentContainsOneOf(arg[i], NonEmptyPathsOfAccessible)})
        /\ \A i \in DOMAIN arg : ScenarioD(i) => \E k \in DOMAIN ret.val : ret.val[k] = arg[i]

\* Scenario D, followed by an entity that is dropped
C19_Witness ==
    /\ EntitiesDone
    /\ Len(arg) = 2
    /\ ScenarioD(1)
    /\ ret.val = <<arg[1]>>
    /\ arg[2] # arg[1]

\* the property bag of a node, when it is a mapping
HasBag(node) == DictGet(node, k_properties, None).t = "dict"
BagOf(node) == DictGet(node, k_properties, None)

\* the provenance values that one property value holds: itself when it is
\* a string, its string items when it is a list
ValuesIn(value) ==
    IF value.t = "str" THEN {value.s}
    ELSE IF value.t = "list"
         THEN {value.items[i].s : i \in {j \in DOMAIN value.items : value.items[j].t = "str"}}
         ELSE {}

\* the provenance values of a node
ProvenanceValues(node) ==
    IF HasBag(node)
    THEN UNION {ValuesIn(DictGet(BagOf(node), ProvenanceKeys[k], None)) : k \in DOMAIN ProvenanceKeys}
    ELSE {}

NodeKeptFor(node, paths) ==
    \/ ProvenanceValues(node) = {}
    \/ \E value \in ProvenanceValues(node) : \E p \in paths : StrContains(p, value)

GraphDone == op = "get_knowledge_graph" /\ Returned

\* C20 as stated: in the graph filter a node whose property bag is not a
\* mapping, or holds no provenance value, is kept; every other node is kept
\* iff one of its provenance values contains the file_path of an accessible
\* document.
C20_NodesOfAnyPath ==
    GraphDone =>
        /\ ret.raised = ""
        /\ ret.val.nodes = PickInOrder(arg.nodes, {i \in DOMAIN arg.nodes : NodeKeptFor(arg.nodes[i], PathsOfAccessible)})

\* C20, amended: in the graph filter a node whose property bag is not a
\* mapping, or holds no string and no list with a string item under the keys
\* file_path, file_paths, sources and documents, is kept; every other node is
\* kept iff one of these strings contains the non-empty file_path of an
\* accessible document.
C20_NodesOfNonEmptyPaths ==
    GraphDone =>
        /\ ret.raised = ""
        /\ ret.val.nodes = PickInOrder(arg.nodes, {i \in DOMAIN arg.nodes : NodeKeptFor(arg.nodes[i], NonEmptyPathsOfAccessible)})

\* a node with a property bag without provenance values kept, and a node
\* with provenance values dropped, some document being accessible
C20_Witness ==
    /\ GraphDone
    /\ Len(arg.nodes) = 2
    /\ HasBag(arg.nodes[1])
    /\ ProvenanceValues(arg.nodes[1]) = {}
    /\ ProvenanceValues(arg.nodes[2]) # {}
    /\ ret.val.nodes = <<arg.nodes[1]>>
    /\ NonEmptyPathsOfAccessible # {}

\* the ids of the nodes that the filtered graph holds
RetainedIds == {DictGet(ret.val.nodes[i], <<"i","d">>, None) : i \in DOMAIN ret.val.nodes}

EdgeSource(edge) == DictGet(edge, <<"s","o","u","r","c","e">>, None)
EdgeTarget(edge) == DictGet(edge, <<"t","a","r","g","e","t">>, None)

\* C21: in the graph returned, an edge of the unfiltered graph is kept iff
\* its source and its target are ids of retained nodes, so no returned edge
\* has an endpoint outside the returned nodes.
C21_EdgesBetweenRetainedNodes ==
    GraphDone =>
        /\ ret.val.edges = PickInOrder(arg.edges, {i \in DOMAIN arg.edges : EdgeSource(arg.edges[i]) \in RetainedIds /\ EdgeTarget(arg.edges[i]) \in RetainedIds})
        /\ \A k \in DOMAIN ret.val.edges : {EdgeSource(ret.val.edges[k]), EdgeTarget(ret.val.edges[k])} \subseteq RetainedIds

\* of two nodes the second is dropped, and of their edges only the loop on
\* the first is returned
C21_Witness ==
    /\ GraphDone
    /\ Len(arg.nodes) = 2
    /\ ret.val.nodes = <<arg.nodes[1]>>
    /\ Len(arg.edges) = 4
    /\ ret.val.edges = <<arg.edges[1]>>

(***************************************************************************)
(* Claims on identities                                                    *)
(***************************************************************************)
\* the roles that a roles value names: the items of a list, a text itself
NamedBy(value) ==
    IF value.t = "list" THEN {value.items[i].s : i \in DOMAIN value.items}
    ELSE IF value.t = "str" THEN {value.s}
    ELSE {}

\* the primary role, the extra roles and the roles of the claims of the identity built
PrimaryRole ==
    IF op = "CurrentUser" THEN arg.role ELSE DictGet(arg.info, k_role, StrV(s_user)).s

ClaimsRoles ==
    IF op = "CurrentUser" THEN DictGet(PyOr(arg.metadata, DictV(<<>>)), k_roles, None)
    ELSE DictGet(DictGet(arg.info, k_metadata, DictV(<<>>)), k_roles, None)

ExtraRoles == IF op = "CurrentUser" THEN arg.roles ELSE ClaimsRoles

FromValidToken == op = "get_current_user_optional" /\ arg.t = "token" /\ arg.valid

\* C22: the roles of an identity are the non-empty primary role, the extra
\* roles and the roles of the claims (a list or one text), and nothing else;
\* the identity built without arguments, or without a token, has role guest,
\* roles {guest} and no user_id.
C22_RolesAreTheUnion ==
    Returned /\ op \in {"CurrentUser", "get_current_user_optional"} =>
        IF op = "CurrentUser" \/ FromValidToken
        THEN ret.val.roles = ({PrimaryRole} \cup NamedBy(ExtraRoles) \cup NamedBy(ClaimsRoles)) \ {<<>>}
        ELSE ret.val.role = s_guest /\ ret.val.roles = {s_guest} /\ ret.val.user_id = None /\ ~ret.val.is_authenticated

(***************************************************************************)
(* Claims on the resolver as a whole                                       *)
(***************************************************************************)
\* C23: when the listing of the document store fails, the call fails with
\* that error: a step of a call whose listing returned nothing ends the call
\* with the error of the listing and without a result, and a failed call
\* takes no further step (no second listing).
C23_ListingFailurePropagates ==
    [][/\ pc # "failed"
       /\ (pc = "listing" /\ arg' = None) =>
              (ret' = Raise("StorageError") /\ pc' = "failed" /\ result' = <<>>)]_vars

\* a call that failed at its listing
C23_Witness ==
    /\ pc = "failed"
    /\ arg = None
    /\ ret = Raise("StorageError")
    /\ result = <<>>
    /\ req # None

\* what a call returns when it runs alone on a store that holds all_docs
AloneOn(all_docs, r) == AccessibleDocs(get_docs_by_status(all_docs, "PROCESSED"), r)

\* a step of call i
StepOf(i) == pc'[i] # pc[i]

\* C24: in every interleaving of concurrent calls around their suspension
\* point, a call that ended returned what it returns alone on the snapshot
\* it received, and no step of a call changes the store or what another
\* call holds.
C24_CallsDoNotInterfere ==
    /\ [](\A i \in Calls : pc[i] = "done" => ret[i] = AloneOn(arg[i], req[i]))
    /\ [][\A i \in Calls : StepOf(i) =>
             /\ store' = store
             /\ \A j \in Calls \ {i} : <<pc'[j], req'[j], arg'[j], ret'[j], result'[j]>> = <<pc[j], req[j], arg[j], ret[j], result[j]>>]_vars

\* both calls ended, each on its own snapshot, with different results for
\* the same request, in a store that changed after the second listing
C24_Witness ==
    /\ op = "get_user_accessible_files"
    /\ DOMAIN pc = Calls
    /\ \A i \in Calls : pc[i] = "done"
    /\ req[1] = req[2]
    /\ arg[1] # arg[2]
    /\ ret[1] # ret[2]
    /\ get_docs_by_status(store, "PROCESSED") \notin {arg[1], arg[2]}

\* the store without document id
StoreWithout(id) == [d \in DOMAIN store \ {id} |-> store[d]]

\* the caller of the request may not access document id: alone in the
\* store, it is not returned
MayNotAccess(id) == AloneOn([d \in {id} |-> store[d]], req) # Return([d \in {id} |-> store[d]])

Ended == pc \in {"done", "failed"} /\ arg # None

\* C25: for a fixed request the outcome is the same on two stores that
\* differ only in a document the caller may not access: the call ends as
\* it ends on the store without that document, with the same map and
\* without an error.
C25_NoExistenceLeak ==
    Ended =>
        \A id \in DOMAIN store : MayNotAccess(id) => ret.raised = "" /\ ret = AloneOn(StoreWithout(id), req)

\* the outcome of the same call for the permission view
ViewOutcome == AccessibleDocs(arg, [req EXCEPT !.required_permission = VIEW])

\* C28: for every store, identity, filters, include_shared and
\* include_public, the documents returned for the permission edit are among
\* those returned for the permission view.
C28_EditWithinView ==
    (Done /\ req.required_permission = EDIT) =>
        ViewOutcome.raised = "" /\ DOMAIN result \subseteq DOMAIN ViewOutcome.val

\* an edit request that is returned a document, and fewer than for view
C28_Witness ==
    /\ Done
    /\ req.required_permission = EDIT
    /\ DOMAIN result # {}
    /\ DOMAIN result # DOMAIN ViewOutcome.val

\* C29: an accessible document whose file_path is missing or empty grants
\* nothing: every chunk or entity kept by filter_chunks_by_access and
\* filter_entities_by_access is kept for the non-empty path of an accessible
\* document, and both return the empty list when no accessible document has
\* a non-empty path.
C29_PathlessDocumentsGrantNothing ==
    /\ ChunksDone =>
          /\ \A k \in DOMAIN ret.val : ChunkContainsOneOf(ret.val[k], NonEmptyPathsOfAccessible)
          /\ NonEmptyPathsOfAccessible = {} => ret.val = <<>>
    /\ EntitiesDone =>
          /\ \A k \in DOMAIN ret.val : SegmentContainsOneOf(ret.val[k], NonEmptyPathsOfAccessible)
          /\ NonEmptyPathsOfAccessible = {} => ret.val = <<>>

\* the accessible set holds a document without file_path and one with an
\* empty file_path, and an entity with a path is not kept
C29_Witness ==
    /\ EntitiesDone
    /\ Len(store) = 2
    /\ store[1].file_path = None
    /\ store[2].file_path = StrV(<<>>)
    /\ Len(arg) = 2
    /\ HasPath(arg[1])
    /\ PathOf(arg[1]) # <<>>
    /\ ret.val = <<>>

(***************************************************************************)
(* Claims on the routes                                                    *)
(***************************************************************************)
QueryRoute == op \in {"query_text", "query_text_stream", "query_data"}

EngineCalled == arg # None

\* the accessible set of the caller of the route: what the resolver answers
\* to the call of the route on the store
AccessibleSet ==
    AloneOn(store, ResolverRequest(req.current_user, RouteFilters(op, req.access_filters)))

IdsSupplied == req.ids.t = "list" /\ req.ids.items # <<>>

\* C26: in the query routes the engine is called only once the accessible
\* set is computed and not empty, with param.ids not empty and within the
\* accessible ids: the ids of the caller that are accessible, in the
\* caller's order, or every accessible id when the caller gave none.
C26_EngineAfterResolver ==
    (QueryRoute /\ EngineCalled) =>
        /\ pc \in {"engine", "done"}
        /\ AccessibleSet.raised = ""
        /\ result = AccessibleSet.val
        /\ DOMAIN result # {}
        /\ arg.ids # <<>>
        /\ \A k \in DOMAIN arg.ids : arg.ids[k] \in DOMAIN result
        /\ IF IdsSupplied
           THEN arg.ids = PickInOrder(req.ids.items, {i \in DOMAIN req.ids.items : req.ids.items[i] \in DOMAIN result})
           ELSE {arg.ids[k] : k \in DOMAIN arg.ids} = DOMAIN result /\ Len(arg.ids) = Cardinality(DOMAIN result)

\* the caller asks for a document that is not accessible and for one that
\* is: the engine is called with the second only
C26_Witness ==
    /\ op = "query_data"
    /\ EngineCalled
    /\ req.ids = ListV(<<DocIds[3], DocIds[1], DocIds[3]>>)
    /\ arg.ids = <<DocIds[1]>>
    /\ Cardinality(DOMAIN store) > Cardinality(DOMAIN result)

\* the caller of the route has no accessible document, or asked for
\* documents none of which is accessible
NothingAccessible ==
    /\ AccessibleSet.raised = ""
    /\ \/ DOMAIN AccessibleSet.val = {}
       \/ /\ QueryRoute
          /\ IdsSupplied
          /\ \A i \in DOMAIN req.ids.items : req.ids.items[i] \notin DOMAIN AccessibleSet.val

\* C27: when the accessible set of the caller is empty, or none of the ids
\* asked for is accessible, GET /graphs, POST /query/data and POST
\* /query_nofilter/stream answer with status 403 and the detail "No
\* accessible documents found for the provided metadata filters."
C27_Answers403 ==
    (op \in {"get_knowledge_graph", "query_data", "query_text_stream"} /\ pc = "done" /\ NothingAccessible) =>
        ret = HTTPException(403, NoAccessibleDetail)

\* the PROCESSED documents of the store that the caller was refused
ExcludedDocs == {id \in DOMAIN store : store[id].status = "PROCESSED" /\ id \notin DOMAIN result}

\* the file paths of the documents the caller may access
AccessiblePathsOfCaller ==
    {result[id].file_path.s : id \in {d \in DOMAIN result : result[d].file_path.t = "str"}}

\* the chunk is the chunk of an excluded document whose path no accessible
\* document has
ChunkOfExcludedOnly(chunk) ==
    /\ HasPath(chunk)
    /\ PathOf(chunk) \notin AccessiblePathsOfCaller
    /\ \E id \in ExcludedDocs : store[id].file_path = StrV(PathOf(chunk))

DataAnswered == op = "query_data" /\ pc = "done" /\ ret.raised = ""

\* C30 as stated: filter_chunks_by_access, applied to the accessible set of
\* the resolver, never keeps a chunk whose file_path is exactly the
\* file_path of a PROCESSED document that the resolver excluded for the
\* caller, when no accessible document has that file_path.
C30_NoChunkOfExcludedDocument ==
    DataAnswered =>
        \A k \in DOMAIN ret.val.chunks : ~ChunkOfExcludedOnly(ret.val.chunks[k])

\* the path contains the non-empty file_path of an accessible document
ContainsAccessiblePath(path) ==
    \E p \in AccessiblePathsOfCaller \ {<<>>} : StrContains(p, path)

\* C30, amended: filter_chunks_by_access never keeps a chunk whose file_path
\* is exactly the file_path of a PROCESSED document that the resolver
\* excluded for the caller, when that path contains the non-empty file_path
\* of no accessible document.
C30_NoChunkOfUnrelatedExcludedDocument ==
    DataAnswered =>
        \A k \in DOMAIN ret.val.chunks :
            ChunkOfExcludedOnly(ret.val.chunks[k]) => ContainsAccessiblePath(PathOf(ret.val.chunks[k]))

\* the engine answered with the chunk of an excluded document whose path
\* contains no accessible path, and the response holds other chunks only
C30_Witness ==
    /\ DataAnswered
    /\ ret.val.chunks # <<>>
    /\ \E id \in ExcludedDocs :
          /\ store[id].file_path.t = "str"
          /\ ~ContainsAccessiblePath(store[id].file_path.s)
          /\ \A k \in DOMAIN ret.val.chunks : PathOf(ret.val.chunks[k]) # store[id].file_path.s

====
